---------------------------- MODULE Spec2Model ----------------------------
(***************************************************************************)
(* Model of the shaderpixel renderer: the shader hot-reload protocol       *)
(* (src/vulkan/shader.rs), the Pipeline state machine                      *)
(* (src/vulkan/pipeline.rs), the host loop and frame engine                *)
(* (src/main.rs, src/vulkan/app.rs) and the shared Geometry handle         *)
(* (src/vulkan/geometry.rs).                                               *)
(*                                                                         *)
(* Three threads act on the shader slots: the render thread (the winit     *)
(* event loop: window_event, about_to_wait), the compile worker spawned in *)
(* VkApp::new and the file watcher spawned in Shaders::watch_art.  Every   *)
(* step of the model is one critical section of a slot's RwLock (or a      *)
(* stretch of code that touches only state owned by one thread).           *)
(*                                                                         *)
(* The scene is cut down to two art pipelines, "Mandelbrot" and "Sdf Cat", *)
(* which share the vertex slot art2d.vert exactly as in App::init, next to *)
(* the two static pipelines main and skybox.                               *)
(***************************************************************************)
EXTENDS Integers, Sequences, FiniteSets, TLC

\* Option::None of a handle, a bytecode or a compile result.
None == -1

\* Number of file modifications the environment performs in a run.
MaxEdits == 1

\* Number of clone() calls made on one Geometry.
MaxClones == 3

-----------------------------------------------------------------------------
(* The scene built by App::init. *)

\* Slots with a path: hot-reloadable (ShaderInner::new(..).path(..)).
ArtSlots == {"art2d_vert", "mandelbrot_frag", "cat_frag"}

\* Slots built from embedded bytes (ShaderInner::new(..).bytes(..)).
StaticSlots == {"main_vert", "main_frag", "cube_vert", "cube_frag"}

Slots == ArtSlots \cup StaticSlots

PIPELINE_IDX_MAIN == 0
PIPELINE_IDX_CUBE == 1
PIPELINE_IDX_ART == 2

\* Indices of VkApp::pipelines: main, skybox, then one per ShaderArt.
PipelineIds == 0 .. 3

ArtPipelineIds == PIPELINE_IDX_ART .. 3

\* Past-the-end index of VkApp::pipelines.
PipelinesLen == PIPELINE_IDX_ART + Cardinality(ArtPipelineIds)

\* Pipeline::shaders of each pipeline: [vertex slot, fragment slot].
Shaders(p) ==
    CASE p = 0 -> <<"main_vert", "main_frag">>
      [] p = 1 -> <<"cube_vert", "cube_frag">>
      [] p = 2 -> <<"art2d_vert", "mandelbrot_frag">>
      [] OTHER -> <<"art2d_vert", "cat_frag">>

\* The order in which VkApp::new calls set_hot_reload: vert then frag of
\* every ShaderArt, so the shared vertex slot is visited twice.
HotReloadOrder == <<"art2d_vert", "mandelbrot_frag", "art2d_vert", "cat_frag">>

\* ShaderInner as App::init builds it.
ShaderInnerNew(s) ==
    [ has_path         |-> s \in ArtSlots,
      code             |-> IF s \in StaticSlots THEN 0 ELSE None,
      module           |-> None,
      compile_sender   |-> FALSE,
      is_compiling     |-> FALSE,
      code_has_changed |-> FALSE ]

\* Option<(vk::Pipeline, vk::PipelineLayout)>: <<>> is None, otherwise the
\* pair of module versions the GPU pipeline was built from.
NoPipeline == <<>>

VARIABLES
    slot,            \* slot name -> ShaderInner (behind its Arc<RwLock>)
    fileVer,         \* art slot -> version of the source text on disk
    fileValid,       \* art slot -> does the source on disk compile
    fsEvent,         \* art slot -> a debounced watcher event is pending
    edits,           \* number of file modifications so far
    watching,        \* Shaders::watch_art has been called
    queue,           \* the mpsc channel of the compile worker
    worker,          \* the compile worker: [st, job, res, orphan]
    pipelines,       \* VkApp::pipelines: index -> Pipeline
    rpc,             \* the render thread: [op, st, i], i the loop index
    m0,              \* result of shaders[0].module() inside recreate
    rcb,             \* draw_frame's local recreate_command_buffers
    reloading,       \* VkApp::reload_shaders' local reloading
    dirty_swapchain, \* VkApp::dirty_swapchain
    reload_key,      \* App::reload_shaders (set by the ControlRight key)
    compile_log,     \* art slot -> outcome logged for its last finished job
    module_at_request, \* art slot -> module live when its job was requested
    last_reload,     \* the last Shader::reload call of the running frame
    unread,          \* art slot -> the watcher reported a change of the file
                     \* that no compile job has read yet
    since_request,   \* art slot -> the watcher reported a change of the file
                     \* after the last compile request for the slot
    current_frame,   \* InFlightFrames::current_frame
    fence,           \* in-flight slot -> its fence is signaled
    submitted,       \* in-flight slot -> a queue submission that will signal
                     \* its fence is executing on the GPU
    fpc,             \* draw_frame's position in the frame ring: [st, i]
    ring_log,        \* in-flight slot -> what happened to its fence since the
                     \* last acquire issued with its semaphore
    gap,             \* in-flight slot -> ring_log as it was at that acquire
    window,          \* window.inner_size(): [width, height]
    frame_log,       \* what the running or last draw_frame call has done
    needs_recreate,  \* draw_frame returned true and no recreate_swapchain
                     \* has completed since
    rs_call,         \* the arguments of the last recreate_swapchain call
    atw_skipped,     \* about_to_wait has returned before draw_frame since
                     \* the last Resized event
    load_next_image, \* App::load_next_image
    texture0,        \* textures[0], which the descriptor sets bound in the
                     \* command buffers refer to: "live" or "destroyed"
    cb_stale,        \* an object the command buffers refer to was destroyed
    image_of,        \* in-flight slot -> the swapchain image index of its
                     \* frame, from acquire_next_image until the GPU is done
                     \* after they were last recorded
    geometries,      \* Geometry name -> its handles, Rc count and buffers
    swap_pc,         \* recreate_swapchain's position: [st, k]
    swap_args,       \* the arguments of the running recreate_swapchain
    bundle,          \* object class of the swapchain bundle -> the extent
                     \* its live object was built for, or NoObject
    command_buffers, \* the extent of the framebuffers the command buffers
                     \* were recorded against
    gpu_busy,        \* a submitted frame is executing on the GPU
    swap_log,        \* what the running or last recreate_swapchain did
    recreate_call,   \* Pipeline::recreate applied to a chosen pipeline and
                     \* pair of slots: [st, pl, vs, fs, live, once]
    lock,            \* one Shader, an Arc<RwLock<ShaderInner>>: the thread
                     \* holding the write guard, the threads holding read
                     \* guards, the ShaderInner, and the jobs in the channel
    lpc,             \* where the render thread and the worker are in their
                     \* call on that Shader; forced is reload's argument
    dropped,         \* the value being dropped and what its Drop did
    recorded,        \* the pipelines bound in the recorded command buffers
    life,            \* the process from VkApp::new to its end
    calc             \* one call of a function without side effects: its
                     \* name, its arguments and what it returned

\* The hot-reload protocol, without the flag it shares with the frame ring.
reloadVars == << slot, fileVer, fileValid, fsEvent, edits, watching, queue,
                 worker, pipelines, rpc, m0, rcb, reloading, reload_key,
                 compile_log, module_at_request, last_reload, unread,
                 since_request >>

\* The frame ring of draw_frame.
frameVars == << current_frame, fence, submitted, fpc, ring_log, gap, window,
               frame_log, needs_recreate, rs_call, atw_skipped,
               load_next_image, texture0, cb_stale, image_of >>

\* The reference-counted geometry buffers.
geomVars == << geometries >>

\* The swapchain bundle under recreate_swapchain.
swapVars == << swap_pc, swap_args, bundle, command_buffers, gpu_busy,
               swap_log >>

\* Pipeline::recreate called twice on one pipeline.
recreateVars == << recreate_call >>

\* The slot lock, thread by thread.
lockVars == << lock, lpc >>

\* Values dropped with or without their GPU objects.
dropVars == << dropped >>

\* The application from VkApp::new to the end of the process.
lifeVars == << recorded, life >>

coreVars == << reloadVars, dirty_swapchain, frameVars, geomVars, swapVars >>

auxVars == << recreateVars, lockVars, dropVars, lifeVars, calc >>

vars == << coreVars, auxVars >>


-----------------------------------------------------------------------------
(* src/vulkan/shader.rs: the operations on one ShaderInner.  Each operator  *)
(* is one critical section of the slot's lock and yields the new slot       *)
(* together with what the caller gets back.                                 *)

\* A cleanup that leaves the module in place.
InnerCleanup_KeepModule(sl) == sl

\* ShaderInner::cleanup: take and destroy the module.
InnerCleanup(sl) == [sl EXCEPT !.module = None]

\* A load_module that leaves the bytecode in the slot.
LoadModule_KeepCode(sl) == [InnerCleanup(sl) EXCEPT !.module = sl.code]

\* ShaderInner::load_module: create the module from the bytecode, destroy
\* the old one, consume the bytecode.
LoadModule(sl) == [InnerCleanup(sl) EXCEPT !.module = sl.code, !.code = None]

\* Shader::module: the live module, created lazily from unconsumed bytecode.
ShaderModule(sl) ==
    IF sl.module = None /\ sl.code # None
    THEN [slot |-> LoadModule(sl), ret |-> sl.code]
    ELSE [slot |-> sl, ret |-> sl.module]

\* Shader::set_hot_reload: store the sender and queue the first compile,
\* unless the slot already has a sender.
SetHotReload(sl) ==
    IF sl.compile_sender
    THEN [slot |-> sl, sent |-> FALSE]
    ELSE [slot |-> [sl EXCEPT !.is_compiling = TRUE, !.compile_sender = TRUE],
          sent |-> TRUE]

\* Shader::code_has_changed.
CodeHasChanged(sl) == sl.code_has_changed

\* A reload that queues a job without looking at is_compiling.
ShaderReload_NoBusyGuard(sl, forced) ==
    IF ~sl.code_has_changed /\ ~forced
    THEN [slot |-> sl, ret |-> FALSE, sent |-> FALSE]
    ELSE [slot |-> [sl EXCEPT !.code_has_changed = FALSE,
                              !.is_compiling = TRUE, !.module = None],
          ret |-> TRUE, sent |-> TRUE]

\* A reload that consumes the dirty bit of a slot that is compiling.
ShaderReload_ClearWhenBusy(sl, forced) ==
    IF sl.is_compiling
    THEN [slot |-> [sl EXCEPT !.code_has_changed = FALSE],
          ret |-> TRUE, sent |-> FALSE]
    ELSE IF (~sl.code_has_changed /\ ~forced) \/ ~sl.compile_sender
    THEN [slot |-> sl, ret |-> FALSE, sent |-> FALSE]
    ELSE [slot |-> [sl EXCEPT !.code_has_changed = FALSE,
                              !.is_compiling = TRUE, !.module = None],
          ret |-> TRUE, sent |-> TRUE]

\* A reload that does not look at the dirty bit: every call is forced.
ShaderReload_IgnoresDirtyBit(sl, forced) ==
    IF sl.is_compiling
    THEN [slot |-> sl, ret |-> TRUE, sent |-> FALSE]
    ELSE IF ~sl.compile_sender
    THEN [slot |-> [sl EXCEPT !.code_has_changed = FALSE],
          ret |-> FALSE, sent |-> FALSE]
    ELSE [slot |-> [sl EXCEPT !.code_has_changed = FALSE,
                              !.is_compiling = TRUE, !.module = None],
          ret |-> TRUE, sent |-> TRUE]

\* A reload that leaves the dirty bit set when it requests the compile.
ShaderReload_KeepsDirty(sl, forced) ==
    IF sl.is_compiling
    THEN [slot |-> sl, ret |-> TRUE, sent |-> FALSE]
    ELSE IF ~sl.code_has_changed /\ ~forced
    THEN [slot |-> sl, ret |-> FALSE, sent |-> FALSE]
    ELSE IF ~sl.compile_sender
    THEN [slot |-> sl, ret |-> FALSE, sent |-> FALSE]
    ELSE [slot |-> InnerCleanup([sl EXCEPT !.is_compiling = TRUE]),
          ret |-> TRUE, sent |-> TRUE]

\* Shader::reload.  The send cannot fail: the worker holds the receiver for
\* as long as the process runs.
ShaderReload(sl, forced) ==
    IF sl.is_compiling
    THEN [slot |-> sl, ret |-> TRUE, sent |-> FALSE]
    ELSE IF ~sl.code_has_changed /\ ~forced
    THEN [slot |-> sl, ret |-> FALSE, sent |-> FALSE]
    ELSE IF ~sl.compile_sender
    THEN [slot |-> [sl EXCEPT !.code_has_changed = FALSE],
          ret |-> FALSE, sent |-> FALSE]
    ELSE [slot |-> InnerCleanup([sl EXCEPT !.code_has_changed = FALSE,
                                           !.is_compiling = TRUE]),
          ret |-> TRUE, sent |-> TRUE]

\* ShaderInner::compile_code: read the source at the path and compile it;
\* the bytecode is identified by the version of the source it was read from.
CompileCode(ver, valid) == IF valid THEN ver ELSE None

\* Shader::compile_code_helper, the final critical section on success.
CompileStore(sl, code) == [sl EXCEPT !.code = code, !.module = None]

\* A compile_code_helper that destroys the module it finds in the slot.
Orphaned_Destroyed(sl) == FALSE

\* compile_code_helper's "inner.module = None" makes no device call: a
\* module the field named goes on existing, with no handle left to it.
Orphaned(sl) == sl.module # None

\* A job end that also clears the dirty bit.
CompileFinish_ClearsDirty(sl) ==
    [sl EXCEPT !.is_compiling = FALSE, !.code_has_changed = FALSE]

\* Shader::compile_code, the critical section after the helper returned.
CompileFinish(sl) == [sl EXCEPT !.is_compiling = FALSE]

\* A watcher that marks the slot as compiling along with the dirty bit.
WatchEvent_MarksCompiling(sl) ==
    [sl EXCEPT !.code_has_changed = TRUE, !.is_compiling = TRUE]

\* Shaders::watch_art, the body of the event loop for one matching path.
WatchEvent(sl) == [sl EXCEPT !.code_has_changed = TRUE]

-----------------------------------------------------------------------------
(* src/vulkan/pipeline.rs *)

\* The struct literal in Pipeline::new, before its call of recreate.
PipelineNew ==
    [ pipeline_and_layout |-> NoPipeline,
      active              |-> TRUE,
      waiting_for_shaders |-> TRUE ]

\* A cleanup_pip that leaves the handle in place.
CleanupPip_KeepHandle(pl) == pl

\* Pipeline::cleanup_pip (also the take() that opens Pipeline::recreate).
CleanupPip(pl) == [pl EXCEPT !.pipeline_and_layout = NoPipeline]

\* Pipeline::recreate after both module() calls returned vsm and fsm.
RecreateEnd(pl, vsm, fsm) ==
    IF vsm # None /\ fsm # None
    THEN [pl EXCEPT !.waiting_for_shaders = FALSE,
                    !.pipeline_and_layout = <<vsm, fsm>>]
    ELSE pl

\* Pipeline::reload_shaders setting waiting_for_shaders without cleanup_pip.
ReloadShadersHit_KeepHandle(pl) == [pl EXCEPT !.waiting_for_shaders = TRUE]

\* Pipeline::reload_shaders once one of the two reload() calls returned true.
ReloadShadersHit(pl) == CleanupPip([pl EXCEPT !.waiting_for_shaders = TRUE])

\* Pipeline::get.
Get(pl) == pl.pipeline_and_layout

\* Pipeline::has_changed, called by draw_frame: one of the two slots has
\* its dirty bit set.
HasChanged(p) ==
    \/ CodeHasChanged(slot[Shaders(p)[1]])
    \/ CodeHasChanged(slot[Shaders(p)[2]])

\* create_and_register_command_buffers binds every pipeline that is active
\* and not waiting; bind_to_cmd_buffer expects a handle and panics without.
BindPanics(pls) ==
    \E p \in PipelineIds :
        /\ pls[p].active
        /\ ~pls[p].waiting_for_shaders
        /\ Get(pls[p]) = NoPipeline

\* Pipeline::recreate on pipeline pl with vertex slot vs and fragment slot
\* fs: take and destroy the handle, ask both slots for their module, and
\* build a new handle when both exist.  destroyed and created count the
\* destroy_pipeline and create_pipeline calls.
PipelineRecreate(pl, vs, fs) ==
    LET r0 == ShaderModule(vs)
        r1 == ShaderModule(fs)
    IN  [pl |-> RecreateEnd(CleanupPip(pl), r0.ret, r1.ret),
         vs |-> r0.slot, fs |-> r1.slot,
         destroyed |-> IF Get(pl) # NoPipeline THEN 1 ELSE 0,
         created |-> IF r0.ret # None /\ r1.ret # None THEN 1 ELSE 0]

\* The pipelines Pipeline::recreate is called on: new or reloaded (waiting,
\* no handle), built (not waiting, handle), or built and then cleaned by
\* cleanup_swapchain (not waiting, no handle).
RecreatePipelines ==
    { [pipeline_and_layout |-> hw[1], active |-> TRUE,
       waiting_for_shaders |-> hw[2]] :
          hw \in { << NoPipeline, TRUE >>, << <<0, 0>>, FALSE >>,
                   << NoPipeline, FALSE >> } }

\* The slots it finds: queued or compiling (is_compiling, no module), with
\* or without the bytecode stored; failed (neither bytecode nor module);
\* compiled (bytecode of version 0 or 1, not loaded yet); or loaded (a
\* module of version 0 or 1).
RecreateSlots ==
    { [ShaderInnerNew("art2d_vert") EXCEPT
           !.compile_sender = TRUE, !.code = cm[1], !.module = cm[2],
           !.is_compiling = b] :
          cm \in { << None, None >>, << 0, None >>, << 1, None >>,
                   << None, 0 >>, << None, 1 >> },
          b \in BOOLEAN } \
    { sl \in [has_path : {TRUE}, code : {None}, module : {0, 1},
              compile_sender : {TRUE}, is_compiling : {TRUE},
              code_has_changed : {FALSE}] : TRUE }

\* A pipeline with its vertex and fragment slot.  A pipeline that is not
\* waiting was built from both modules, and its fragment slot, which no
\* other pipeline uses, has been reloaded by no one since; its vertex slot
\* may have been reloaded through the pipeline it is shared with.
RecreateInputs ==
    { in \in RecreatePipelines \X RecreateSlots \X RecreateSlots :
          ~in[1].waiting_for_shaders =>
              (in[3].module # None /\ ~in[3].is_compiling) }

\* No call of the pair has been made.
RecreateCallNew ==
    [st |-> "none", pl |-> PipelineNew, vs |-> ShaderInnerNew("art2d_vert"),
     fs |-> ShaderInnerNew("art2d_vert"), live |-> 0, once |-> <<>>]

-----------------------------------------------------------------------------
(* The Drop implementations of Pipeline, Geometry and ShaderInner.  live is *)
(* "the value still holds its GPU object": pipeline_and_layout, rc or       *)
(* module is Some; panicking is std::thread::panicking().                   *)

DropKinds == {"Pipeline", "Geometry", "ShaderInner"}

\* impl Drop for Pipeline: panic when the handle is still there; a panic
\* raised while the thread is unwinding aborts the process.
PipelineDrop(live, panicking) ==
    IF live THEN (IF panicking THEN "abort" ELSE "panic") ELSE "none"

\* impl Drop for Geometry: log an error unless the thread is panicking.
GeometryDrop(live, panicking) ==
    IF ~panicking /\ live THEN "log_error" ELSE "none"

\* impl Drop for ShaderInner: log an error unless the thread is panicking.
ShaderInnerDrop(live, panicking) ==
    IF ~panicking /\ live THEN "log_error" ELSE "none"

DropOf(k, live, panicking) ==
    CASE k = "Pipeline" -> PipelineDrop(live, panicking)
      [] k = "Geometry" -> GeometryDrop(live, panicking)
      [] OTHER -> ShaderInnerDrop(live, panicking)

\* One value of each kind, created and holding its GPU object, in a thread
\* that is not panicking.
DroppedNew ==
    [val |-> [k \in DropKinds |->
                 [st |-> "held", live |-> TRUE, outcome |-> "none"]],
     panicking |-> FALSE]

-----------------------------------------------------------------------------
(* src/vulkan/app.rs: the frame ring.                                        *)

MAX_FRAMES_IN_FLIGHT == 2

FrameSlots == 0 .. MAX_FRAMES_IN_FLIGHT - 1

\* The indices of the swapchain's images, each with its uniform buffer and
\* its command buffer.
SwapchainImages == 0 .. 1

\* An InFlightFrames::next that hands out the slot and forgets to advance.
InFlightFramesNext_Stuck(cf) == cf

\* InFlightFrames::next: the index after the one handed out.
InFlightFramesNext(cf) == (cf + 1) % MAX_FRAMES_IN_FLIGHT

\* A fence created without the SIGNALED flag.
CreateFence_Unsignaled == FALSE

\* create_sync_objects: every in_flight_fence is created with
\* vk::FenceCreateFlags::SIGNALED.
CreateFence == TRUE

\* A draw_frame that goes on to the fence reset whatever acquire returned.
AfterAcquire_AlwaysReset(ok) == "reset"

\* A draw_frame that writes the uniform buffer, submits and presents after
\* an out-of-date acquire, skipping only the fence reset.
AfterAcquire_NoEarlyReturn(ok) == IF ok THEN "reset" ELSE "ubo"

\* draw_frame's match on the result of acquire_next_image: go on to the
\* fence reset, or return true at once on ERROR_OUT_OF_DATE_KHR.
AfterAcquire(ok) == IF ok THEN "reset" ELSE "idle"

Fpc(st, i) == [st |-> st, i |-> i]

\* src/main.rs: the initial inner size of the window.
WIDTH == 800
HEIGHT == 600

\* What window.inner_size() can return: a minimized window has size zero.
WindowSizes == [width : {0, WIDTH}, height : {0, HEIGHT}]

\* The results of acquire_next_image and queue_present that draw_frame
\* tells apart: Ok(false), Ok(true), Err(ERROR_OUT_OF_DATE_KHR), other Err.
SwapchainResults == {"ok", "suboptimal", "out_of_date", "error"}

\* An about_to_wait that goes on to draw_frame with a pending recreation.
AboutToWaitBranch_NeverRecreates(dirty, size) ==
    IF dirty /\ ~(size.width > 0 /\ size.height > 0) THEN "idle" ELSE "next"

\* An about_to_wait that recreates the swapchain whatever the window size.
AboutToWaitBranch_NoSizeCheck(dirty, size) ==
    IF dirty THEN "recreate" ELSE "next"

\* about_to_wait's handling of dirty_swapchain: recreate_swapchain when the
\* window has a positive size, return when it has not, and go on to
\* draw_frame when no recreation is pending.
AboutToWaitBranch(dirty, size) ==
    IF dirty
    THEN IF size.width > 0 /\ size.height > 0 THEN "recreate" ELSE "idle"
    ELSE "next"

\* A draw_frame that treats a suboptimal present as a plain success.
PresentReturn_IgnoresSuboptimal(res) == res = "out_of_date"

\* draw_frame's match on the result of queue_present: Ok(value) => value,
\* with value the suboptimal flag, and Err(ERROR_OUT_OF_DATE_KHR) => true.
PresentReturn(res) == res \in {"suboptimal", "out_of_date"}

\* What Carousel::get_next and load_new_texture can come to: no image file
\* found, an image loaded, or a file that create_texture_image fails on.
LoadResults == {"no_image", "loaded", "failed"}

\* about_to_wait after the handling of dirty_swapchain: load_new_texture
\* when load_next_image is set, then draw_frame.
AfterDirty(load) == IF load THEN "texture" ELSE "next"

\* Texture::destroy: the image, its memory, its view and its sampler are
\* destroyed; the Texture value still holds the handles.
TextureDestroy(tex) == "destroyed"

\* What one draw_frame call has done so far, from in_flight_frames.next()
\* on; ret is its return value once it has returned.
FrameLogNew == [acquire |-> "none", reset |-> FALSE, ubo |-> FALSE,
                submit |-> FALSE, present |-> "none", ret |-> "none"]

\* recreate_swapchain has not been called.
NoCall == <<>>

\* Nothing recorded: no acquire has been issued with the slot's semaphore.
RingLogNew == [prev |-> "none", waited |-> FALSE, reset |-> FALSE]

GapNew == [prev |-> "none", waited |-> FALSE, reset |-> FALSE,
           signaled |-> FALSE]

-----------------------------------------------------------------------------
(* src/vulkan/app.rs: recreate_swapchain and cleanup_swapchain.             *)

\* The object classes of the swapchain bundle.
BundleClasses == {"depth_texture", "color_texture", "framebuffers",
                  "pipelines", "render_pass", "image_views", "swapchain"}

\* The sizes recreate_swapchain is called with.
SwapSizes == [width : {0, 400, WIDTH}, height : {0, 300, HEIGHT}]

\* A destroyed object; a live one is modelled by the extent it was built for.
NoObject == [width |-> 0, height |-> 0]

\* A recreate_swapchain that rejects only a size with both dimensions zero.
InvalidDimensions_BothZero(size) == size.width = 0 /\ size.height = 0

\* recreate_swapchain's test: if width == 0 || height == 0 { panic!(..) }.
InvalidDimensions(size) == size.width = 0 \/ size.height = 0

\* cleanup_swapchain, in the order of its statements.
CleanupOrder == << "depth_texture", "color_texture", "framebuffers",
                   "pipelines", "render_pass", "image_views", "swapchain" >>

\* A recreate_swapchain that builds the framebuffers before the pipelines.
CreateOrder_FramebuffersFirst ==
    << "swapchain", "image_views", "render_pass", "color_texture",
       "depth_texture", "framebuffers", "pipelines" >>

\* recreate_swapchain after cleanup_swapchain, in the order of its
\* statements.
CreateOrder == << "swapchain", "image_views", "render_pass", "pipelines",
                  "color_texture", "depth_texture", "framebuffers" >>

\* A bundle with every object built for one extent.
BundleNew(size) == [c \in BundleClasses |-> size]

Spc(st, k) == [st |-> st, k |-> k]

-----------------------------------------------------------------------------
(* src/vulkan/geometry.rs                                                    *)

GeometryNames == {"geometry_skybox", "geometry_quad"}

\* A Geometry that has not been created yet.  rc holds, for every handle
\* made so far (handle 1 by new, the others by clone), whether its rc field
\* is still Some; strong is the strong count of the shared Rc.
NoGeometry == [rc |-> <<>>, strong |-> 0, freed |-> 0, early |-> FALSE]

\* Geometry::new.
GeometryNew == [rc |-> <<TRUE>>, strong |-> 1, freed |-> 0, early |-> FALSE]

\* Clone of a handle whose rc is Some: the Rc is cloned with it.
GeometryClone(g) == [g EXCEPT !.rc = Append(@, TRUE), !.strong = @ + 1]

\* A test that lets every cleanup destroy the buffers.
IsLastRc_Any(strong) == strong >= 1

\* Geometry::cleanup, the test that guards the destruction of the buffers.
IsLastRc(strong) == strong = 1

\* Geometry::cleanup of handle h: take the rc, free the buffers and their
\* memory if it is the only strong reference, drop the rc.  early records a
\* destruction made while another handle still had its rc.
GeometryCleanup(g, h) ==
    [g EXCEPT !.rc[h] = FALSE,
              !.strong = @ - 1,
              !.freed = IF IsLastRc(g.strong) THEN @ + 1 ELSE @,
              !.early = @ \/ ( /\ IsLastRc(g.strong)
                               /\ \E o \in DOMAIN g.rc : o # h /\ g.rc[o] )]

-----------------------------------------------------------------------------
(* The life of the VkApp value: what its command buffers draw, and its end  *)
(* in App::exiting and impl Drop for VkApp.                                  *)

\* A recording that skips only the pipelines still waiting for shaders.
RecordedPipelines_IgnoreActive(pls) ==
    {p \in PipelineIds : ~pls[p].waiting_for_shaders}

\* create_and_register_command_buffers: the pipelines bound into every
\* command buffer, all but the inactive and the waiting ones.
RecordedPipelines(pls) ==
    {p \in PipelineIds : ~(~pls[p].active \/ pls[p].waiting_for_shaders)}

\* The VkApp value while VkApp::new builds it: i is the position of the loop
\* in its drop, geometry the pipelines whose geometry field is Some, and
\* panicked the Pipeline values whose drop raised a panic.
LifeNew == [st |-> "running", i |-> 0, geometry |-> {}, panicked |-> {}]

-----------------------------------------------------------------------------
(* Initial state: App::init has built the Shaders value and VkApp::new has  *)
(* spawned the compile worker and is about to walk shaders_art.             *)

Pc(op, st, i) == [op |-> op, st |-> st, i |-> i]

\* No Shader::reload call has been made in the running about_to_wait.
NoReload == [s |-> "none", busy |-> FALSE, ret |-> FALSE, sent |-> FALSE]

WorkerIdle == [st |-> "idle", job |-> "none", res |-> None, orphan |-> FALSE]

Init ==
    /\ slot = [s \in Slots |-> ShaderInnerNew(s)]
    /\ fileVer = [s \in ArtSlots |-> 0]
    /\ fileValid = [s \in ArtSlots |-> TRUE]
    /\ fsEvent = [s \in ArtSlots |-> FALSE]
    /\ edits = 0
    /\ watching = FALSE
    /\ queue = <<>>
    /\ worker = WorkerIdle
    /\ pipelines = [p \in PipelineIds |-> PipelineNew]
    /\ rpc = Pc("new", "hot", 1)
    /\ m0 = None
    /\ rcb = FALSE
    /\ reloading = FALSE
    /\ dirty_swapchain = FALSE
    /\ reload_key = FALSE
    /\ compile_log = [s \in ArtSlots |-> "none"]
    /\ module_at_request = [s \in ArtSlots |-> None]
    /\ last_reload = NoReload
    /\ unread = [s \in ArtSlots |-> FALSE]
    /\ since_request = [s \in ArtSlots |-> FALSE]
    /\ current_frame = 0
    /\ fence = [i \in FrameSlots |-> CreateFence]
    /\ submitted = [i \in FrameSlots |-> FALSE]
    /\ fpc = Fpc("idle", 0)
    /\ ring_log = [i \in FrameSlots |-> RingLogNew]
    /\ gap = [i \in FrameSlots |-> GapNew]
    /\ window = [width |-> WIDTH, height |-> HEIGHT]
    /\ frame_log = FrameLogNew
    /\ needs_recreate = FALSE
    /\ rs_call = NoCall
    /\ atw_skipped = FALSE
    /\ load_next_image = FALSE
    /\ texture0 = "live"
    /\ cb_stale = FALSE
    /\ image_of = [i \in FrameSlots |-> None]
    /\ geometries = [g \in GeometryNames |-> NoGeometry]
    /\ swap_pc = Spc("idle", 0)
    /\ swap_args = [width |-> WIDTH, height |-> HEIGHT]
    /\ bundle = BundleNew([width |-> WIDTH, height |-> HEIGHT])
    /\ command_buffers = [width |-> WIDTH, height |-> HEIGHT]
    /\ gpu_busy = FALSE
    /\ swap_log = <<>>
    /\ recreate_call = RecreateCallNew
    /\ lock = [writer |-> "none", readers |-> {},
               inner |-> ShaderInnerNew("mandelbrot_frag"), jobs |-> 0]
    /\ lpc = [render |-> "idle", forced |-> FALSE, worker |-> "idle"]
    /\ dropped = DroppedNew
    /\ recorded = {}
    /\ life = LifeNew
    /\ calc = [fn |-> "none"]

-----------------------------------------------------------------------------
(* The environment: an editor saving a watched file, and the watcher.       *)

\* A watched source file is rewritten; the debouncer will report it.
EditFile(s, valid) ==
    /\ watching
    /\ edits < MaxEdits
    /\ edits' = edits + 1
    /\ fileVer' = [fileVer EXCEPT ![s] = @ + 1]
    /\ fileValid' = [fileValid EXCEPT ![s] = valid]
    /\ fsEvent' = [fsEvent EXCEPT ![s] = TRUE]
    /\ UNCHANGED << slot, watching, queue, worker, pipelines, rpc, m0,
                    rcb, reloading, dirty_swapchain, reload_key, compile_log,
                    module_at_request,
                    last_reload, unread,
                    since_request >>
    /\ UNCHANGED << frameVars, geomVars, swapVars, auxVars >>

\* Shaders::watch_art: the debounced event for the path of slot s arrives.
WatcherEvent(s) ==
    /\ watching
    /\ fsEvent[s]
    /\ fsEvent' = [fsEvent EXCEPT ![s] = FALSE]
    /\ slot' = [slot EXCEPT ![s] = WatchEvent(@)]
    /\ unread' = [unread EXCEPT ![s] = TRUE]
    /\ since_request' = [since_request EXCEPT ![s] = TRUE]
    /\ UNCHANGED << fileVer, fileValid, edits, watching, queue, worker,
                    pipelines, rpc, m0, rcb, reloading, dirty_swapchain,
                    reload_key, compile_log, module_at_request,
                    last_reload >>
    /\ UNCHANGED << frameVars, geomVars, swapVars, auxVars >>

-----------------------------------------------------------------------------
(* The compile worker: the loop of the thread spawned in VkApp::new.        *)

\* rx.recv() hands out a job; compile_code_helper reads stage and path and
\* ShaderInner::compile_code reads and compiles the source, lock released.
WorkerStart ==
    /\ worker.st = "idle"
    /\ queue # <<>>
    /\ LET s == Head(queue) IN
        /\ worker' = [st |-> "compiled", job |-> s,
                      res |-> CompileCode(fileVer[s], fileValid[s]),
                      orphan |-> FALSE]
        /\ compile_log' = [compile_log EXCEPT ![s] = "compiling"]
        /\ unread' = [unread EXCEPT ![s] = FALSE]
    /\ UNCHANGED since_request
    /\ queue' = Tail(queue)
    /\ UNCHANGED << slot, fileVer, fileValid, fsEvent, edits, watching,
                    pipelines, rpc, m0, rcb, reloading, dirty_swapchain,
                    reload_key, module_at_request,
                    last_reload >>
    /\ UNCHANGED << frameVars, geomVars, swapVars, auxVars >>

\* compile_code_helper stores the bytecode of a successful compile;
\* worker.orphan records that the store left a GPU module without a handle.
WorkerStore ==
    /\ worker.st = "compiled"
    /\ worker.res # None
    /\ slot' = [slot EXCEPT ![worker.job] = CompileStore(@, worker.res)]
    /\ worker' = [worker EXCEPT !.st = "stored",
                                !.orphan = Orphaned(slot[worker.job])]
    /\ UNCHANGED << fileVer, fileValid, fsEvent, edits, watching, queue,
                    pipelines, rpc, m0, rcb, reloading, dirty_swapchain,
                    reload_key, compile_log, module_at_request,
                    last_reload, unread,
                    since_request >>
    /\ UNCHANGED << frameVars, geomVars, swapVars, auxVars >>

\* compile_code clears is_compiling whatever the helper returned; the worker
\* loop logs the error of a failed compile and goes back to rx.recv().
WorkerFinish ==
    /\ \/ worker.st = "stored"
       \/ worker.st = "compiled" /\ worker.res = None
    /\ slot' = [slot EXCEPT ![worker.job] = CompileFinish(@)]
    /\ compile_log' =
          [compile_log EXCEPT
              ![worker.job] = IF worker.res = None THEN "error" ELSE @]
    /\ worker' = WorkerIdle
    /\ UNCHANGED << fileVer, fileValid, fsEvent, edits, watching, queue,
                    pipelines, rpc, m0, rcb, reloading, dirty_swapchain,
                    reload_key, module_at_request,
                    last_reload, unread,
                    since_request >>
    /\ UNCHANGED << frameVars, geomVars, swapVars, auxVars >>

-----------------------------------------------------------------------------
(* The render thread.  rpc.op names the running function: "new" VkApp::new, *)
(* "idle" between two about_to_wait calls, "rs" recreate_swapchain, "rl"    *)
(* VkApp::reload_shaders, "df" draw_frame, "panic" after a panic.           *)

envVars == << fileVer, fileValid, fsEvent, edits, worker >>

Enqueue(q, s, sent) == IF sent THEN Append(q, s) ELSE q

\* about_to_wait after its dirty_swapchain block: reload_shaders if the key
\* was pressed, then draw_frame, whose poll loop starts at PIPELINE_IDX_ART.
AfterRecreate == IF reload_key THEN Pc("rl", "r0", PIPELINE_IDX_ART)
                               ELSE Pc("df", "poll", PIPELINE_IDX_ART)

\* draw_frame: the next step after art pipeline i has been polled, rcbv
\* being recreate_command_buffers so far.
AfterPoll(i, rcbv) ==
    IF i + 1 < PipelinesLen THEN Pc("df", "poll", i + 1)
    ELSE IF rcbv THEN Pc("df", "r0", PIPELINE_IDX_ART)
    ELSE Pc("df", "sync", 0)

\* The next step after pipeline i was handled by the reload loop of
\* VkApp::reload_shaders ("rl": command buffers are re-recorded if any
\* pipeline reloads) or of draw_frame ("df": always re-recorded).
AfterReload(op, i, rel) ==
    IF i + 1 < PipelinesLen THEN Pc(op, "r0", i + 1)
    ELSE IF op = "df" \/ rel THEN Pc(op, "cb", 0)
    ELSE Pc("df", "poll", PIPELINE_IDX_ART)

\* The next step after the command buffers were recorded without a panic.
AfterRecord(op) ==
    CASE op = "new" -> Pc("idle", "idle", 0)
      [] op = "rs" -> AfterRecreate
      [] op = "rl" -> Pc("df", "poll", PIPELINE_IDX_ART)
      [] OTHER -> Pc("df", "sync", 0)

\* VkApp::new: the loop calling set_hot_reload on vert and frag of every
\* ShaderArt, followed by shaders.watch_art().
NewSetHotReload ==
    /\ rpc.op = "new" /\ rpc.st = "hot"
    /\ LET s == HotReloadOrder[rpc.i]
           r == SetHotReload(slot[s])
       IN  /\ slot' = [slot EXCEPT ![s] = r.slot]
           /\ queue' = Enqueue(queue, s, r.sent)
    /\ IF rpc.i < Len(HotReloadOrder)
       THEN rpc' = Pc("new", "hot", rpc.i + 1) /\ UNCHANGED watching
       ELSE rpc' = Pc("new", "m0", 0) /\ watching' = TRUE
    /\ UNCHANGED << envVars, pipelines, m0, rcb, reloading, dirty_swapchain,
                    reload_key, compile_log, module_at_request,
                    last_reload, unread,
                    since_request >>
    /\ UNCHANGED << frameVars, geomVars, swapVars, auxVars >>

\* Pipeline::recreate up to the first module() call, in Pipeline::new
\* (VkApp::new) and in the loop of recreate_swapchain.
RecreateM0(op) ==
    /\ rpc.op = op /\ rpc.st = "m0"
    /\ LET s == Shaders(rpc.i)[1]
           r == ShaderModule(slot[s])
           pl == IF op = "new" THEN PipelineNew ELSE pipelines[rpc.i]
       IN  /\ slot' = [slot EXCEPT ![s] = r.slot]
           /\ m0' = r.ret
           /\ pipelines' = [pipelines EXCEPT ![rpc.i] = CleanupPip(pl)]
    /\ rpc' = Pc(op, "m1", rpc.i)
    /\ UNCHANGED << envVars, watching, queue, rcb, reloading, dirty_swapchain,
                    reload_key, compile_log, module_at_request,
                    last_reload, unread,
                    since_request >>
    /\ UNCHANGED << frameVars, geomVars, swapVars, auxVars >>

\* Pipeline::recreate from the second module() call to its end, and the
\* rest of the caller's loop body.
RecreateM1(op) ==
    /\ rpc.op = op /\ rpc.st = "m1"
    /\ LET s == Shaders(rpc.i)[2]
           r == ShaderModule(slot[s])
           pl == RecreateEnd(pipelines[rpc.i], m0, r.ret)
           rcbv == rcb \/ ~pl.waiting_for_shaders
       IN  /\ slot' = [slot EXCEPT ![s] = r.slot]
           /\ pipelines' = [pipelines EXCEPT ![rpc.i] = pl]
           /\ IF op = "df"
              THEN /\ rpc' = AfterPoll(rpc.i, rcbv)
                   /\ rcb' = (rcbv /\ rpc.i + 1 < PipelinesLen)
              ELSE /\ rpc' = IF rpc.i + 1 < PipelinesLen
                             THEN Pc(op, "m0", rpc.i + 1)
                             ELSE Pc(op, "cb", 0)
                   /\ UNCHANGED rcb
    /\ m0' = None
    /\ UNCHANGED << envVars, watching, queue, reloading, dirty_swapchain,
                    reload_key, compile_log, module_at_request,
                    last_reload, unread,
                    since_request >>
    /\ UNCHANGED << frameVars, geomVars, swapVars, auxVars >>

\* draw_frame, one iteration of the poll loop over the art pipelines.
DfPoll ==
    /\ rpc.op = "df" /\ rpc.st = "poll"
    /\ IF HasChanged(rpc.i)
       THEN /\ rpc' = AfterPoll(rpc.i, TRUE)
            /\ rcb' = (rpc.i + 1 < PipelinesLen)
            /\ UNCHANGED << slot, pipelines, m0 >>
       ELSE IF pipelines[rpc.i].waiting_for_shaders
       THEN LET s == Shaders(rpc.i)[1]
                r == ShaderModule(slot[s])
            IN  /\ slot' = [slot EXCEPT ![s] = r.slot]
                /\ m0' = r.ret
                /\ pipelines' = [pipelines EXCEPT ![rpc.i] = CleanupPip(@)]
                /\ rpc' = Pc("df", "m1", rpc.i)
                /\ UNCHANGED rcb
       ELSE /\ rpc' = AfterPoll(rpc.i, rcb)
            /\ rcb' = (rcb /\ rpc.i + 1 < PipelinesLen)
            /\ UNCHANGED << slot, pipelines, m0 >>
    /\ UNCHANGED << envVars, watching, queue, reloading, dirty_swapchain,
                    reload_key, compile_log, module_at_request,
                    last_reload, unread,
                    since_request >>
    /\ UNCHANGED << frameVars, geomVars, swapVars, auxVars >>

\* Pipeline::reload_shaders: shaders[k].reload(device, forced), k = 1 the
\* vertex and k = 2 the fragment slot; the second call is made only if the
\* first returned false.  forced is true in VkApp::reload_shaders ("rl") and
\* false in draw_frame ("df").
ReloadStep(op, k) ==
    /\ rpc.op = op /\ rpc.st = (IF k = 1 THEN "r0" ELSE "r1")
    /\ LET s == Shaders(rpc.i)[k]
           r == ShaderReload(slot[s], op = "rl")
           rel == reloading \/ r.ret
       IN  /\ slot' = [slot EXCEPT ![s] = r.slot]
           /\ queue' = Enqueue(queue, s, r.sent)
           /\ compile_log' = IF r.sent THEN [compile_log EXCEPT ![s] = "queued"]
                                       ELSE compile_log
           /\ module_at_request' =
                 IF r.sent THEN [module_at_request EXCEPT ![s] = slot[s].module]
                           ELSE module_at_request
           /\ pipelines' =
                 IF r.ret
                 THEN [pipelines EXCEPT ![rpc.i] = ReloadShadersHit(@)]
                 ELSE pipelines
           /\ rpc' = IF ~r.ret /\ k = 1 THEN Pc(op, "r1", rpc.i)
                                        ELSE AfterReload(op, rpc.i, rel)
           /\ reloading' = (op = "rl" /\ rel /\ rpc'.st \in {"r0", "r1"})
           /\ reload_key' =
                 (reload_key /\ (op = "rl" => rpc'.st \in {"r0", "r1"}))
           /\ since_request' =
                 IF r.sent THEN [since_request EXCEPT ![s] = FALSE]
                           ELSE since_request
           /\ last_reload' = [s |-> s, busy |-> slot[s].is_compiling,
                               ret |-> r.ret, sent |-> r.sent]
    /\ UNCHANGED << envVars, watching, m0, rcb, dirty_swapchain, unread >>
    /\ UNCHANGED << frameVars, geomVars, swapVars, auxVars >>

\* recreate_command_buffers / create_and_register_command_buffers.
RecordCommandBuffers(op) ==
    /\ rpc.op = op /\ rpc.st = "cb"
    /\ rpc' = IF BindPanics(pipelines) THEN Pc("panic", "panic", 0)
                                       ELSE AfterRecord(op)
    /\ UNCHANGED << envVars, slot, watching, queue, pipelines, m0, rcb,
                    reloading, dirty_swapchain, reload_key, compile_log,
                    module_at_request,
                    last_reload, unread,
                    since_request >>
    /\ UNCHANGED << frameVars, geomVars, swapVars, auxVars >>

\* App::about_to_wait up to the first call that takes a slot lock.
AboutToWait ==
    /\ rpc.op = "idle"
    /\ rpc' = IF dirty_swapchain THEN Pc("rs", "cleanup", 0) ELSE AfterRecreate
    /\ UNCHANGED << envVars, slot, watching, queue, pipelines, m0, rcb,
                    reloading, dirty_swapchain, reload_key, compile_log,
                    module_at_request,
                    last_reload, unread,
                    since_request >>
    /\ UNCHANGED << frameVars, geomVars, swapVars, auxVars >>

\* recreate_swapchain: wait_gpu_idle and cleanup_swapchain, which calls
\* cleanup_pip on every pipeline.
RsCleanup ==
    /\ rpc.op = "rs" /\ rpc.st = "cleanup"
    /\ pipelines' = [p \in PipelineIds |-> CleanupPip(pipelines[p])]
    /\ rpc' = Pc("rs", "m0", 0)
    /\ UNCHANGED << envVars, slot, watching, queue, m0, rcb, reloading,
                    dirty_swapchain, reload_key, compile_log,
                    module_at_request,
                    last_reload, unread,
                    since_request >>
    /\ UNCHANGED << frameVars, geomVars, swapVars, auxVars >>

\* draw_frame from in_flight_frames.next() to its return; about_to_wait
\* stores the returned flag in dirty_swapchain.
DfSync ==
    /\ rpc.op = "df" /\ rpc.st = "sync"
    /\ \E out_of_date \in BOOLEAN : dirty_swapchain' = out_of_date
    /\ rpc' = Pc("idle", "idle", 0)
    /\ last_reload' = NoReload
    /\ UNCHANGED << envVars, slot, watching, queue, pipelines, m0, rcb,
                    reloading, reload_key, compile_log, module_at_request,
                    unread,
                    since_request >>
    /\ UNCHANGED << frameVars, geomVars, swapVars, auxVars >>

\* window_event, WindowEvent::Resized.
Resized ==
    /\ rpc.op = "idle"
    /\ dirty_swapchain' = TRUE
    /\ UNCHANGED << envVars, slot, watching, queue, pipelines, rpc, m0, rcb,
                    reloading, reload_key, compile_log, module_at_request,
                    last_reload, unread,
                    since_request >>
    /\ UNCHANGED << frameVars, geomVars, swapVars, auxVars >>

\* window_event, KeyCode::ControlRight pressed.
KeyReload ==
    /\ rpc.op = "idle"
    /\ reload_key' = TRUE
    /\ UNCHANGED << envVars, slot, watching, queue, pipelines, rpc, m0, rcb,
                    reloading, dirty_swapchain, compile_log, module_at_request,
                    last_reload, unread,
                    since_request >>
    /\ UNCHANGED << frameVars, geomVars, swapVars, auxVars >>

Render ==
    \/ NewSetHotReload
    \/ \E op \in {"new", "rs"} : RecreateM0(op)
    \/ \E op \in {"new", "rs", "df"} : RecreateM1(op)
    \/ DfPoll
    \/ \E op \in {"rl", "df"}, k \in {1, 2} : ReloadStep(op, k)
    \/ \E op \in {"new", "rs", "rl", "df"} : RecordCommandBuffers(op)
    \/ AboutToWait
    \/ RsCleanup
    \/ DfSync

Worker == WorkerStart \/ WorkerStore \/ WorkerFinish

Watcher == \E s \in ArtSlots : WatcherEvent(s)

Environment ==
    \/ \E s \in ArtSlots, valid \in BOOLEAN : EditFile(s, valid)
    \/ Resized
    \/ KeyReload

Next == Render \/ Worker \/ Watcher \/ Environment

Spec == Init /\ [][Next]_vars

\* The same program with its three threads scheduled fairly: the event loop
\* keeps calling about_to_wait, the worker keeps receiving, the debouncer
\* delivers its events.  Edits, resizes and key presses stay optional.
SpecLive ==
    /\ Init /\ [][Next]_vars
    /\ WF_vars(Render) /\ WF_vars(Worker) /\ WF_vars(Watcher)

-----------------------------------------------------------------------------
(* The frame ring: App::about_to_wait and VkApp::draw_frame from            *)
(* in_flight_frames.next() on, with the GPU finishing submitted work.       *)

\* about_to_wait up to the call of recreate_swapchain or of draw_frame; with
\* a recreation pending and a window of size zero it returns at once.
FrameAboutToWait ==
    /\ fpc.st = "idle"
    /\ LET st == AboutToWaitBranch(dirty_swapchain, window) IN
        /\ fpc' = Fpc(IF st = "next" THEN AfterDirty(load_next_image) ELSE st,
                      0)
        /\ rs_call' = IF st = "recreate"
                      THEN << window.width, window.height >>
                      ELSE rs_call
        /\ atw_skipped' = (atw_skipped \/ st = "idle")
    /\ UNCHANGED << current_frame, fence, submitted, ring_log, gap, window,
                    frame_log, needs_recreate, dirty_swapchain >>
    /\ UNCHANGED << load_next_image, texture0, cb_stale >>
    /\ UNCHANGED << reloadVars, geomVars, swapVars, auxVars >>
    /\ UNCHANGED image_of

\* recreate_swapchain: it panics on a zero dimension, and otherwise its
\* wait_gpu_idle returns only after every submission has finished; then
\* about_to_wait goes on to draw_frame.
FrameRecreateSwapchain ==
    /\ fpc.st = "recreate"
    /\ IF rs_call[1] = 0 \/ rs_call[2] = 0
       THEN /\ fpc' = Fpc("panic", 0)
            /\ UNCHANGED << needs_recreate, cb_stale >>
       ELSE /\ \A i \in FrameSlots : ~submitted[i]
            /\ fpc' = Fpc(AfterDirty(load_next_image), 0)
            /\ needs_recreate' = FALSE
            /\ cb_stale' = FALSE
    /\ UNCHANGED << current_frame, fence, submitted, ring_log, gap, window,
                    frame_log, rs_call, dirty_swapchain >>
    /\ UNCHANGED << atw_skipped, load_next_image, texture0 >>
    /\ UNCHANGED << reloadVars, geomVars, swapVars, auxVars >>
    /\ UNCHANGED image_of

\* in_flight_frames.next().
FrameNext ==
    /\ fpc.st = "next"
    /\ fpc' = Fpc("wait", current_frame)
    /\ current_frame' = InFlightFramesNext(current_frame)
    /\ frame_log' = FrameLogNew
    /\ UNCHANGED << fence, submitted, ring_log, gap, window, needs_recreate,
                    rs_call, dirty_swapchain >>
    /\ UNCHANGED << atw_skipped, load_next_image, texture0, cb_stale >>
    /\ UNCHANGED << reloadVars, geomVars, swapVars, auxVars >>
    /\ UNCHANGED image_of

\* wait_for_fences returns once the fence of the slot is signaled.
FrameWaitFence ==
    /\ fpc.st = "wait"
    /\ fence[fpc.i]
    /\ ring_log' = [ring_log EXCEPT ![fpc.i].waited = TRUE]
    /\ fpc' = Fpc("acquire", fpc.i)
    /\ UNCHANGED << current_frame, fence, submitted, gap, window, frame_log,
                    needs_recreate, rs_call, dirty_swapchain >>
    /\ UNCHANGED << atw_skipped, load_next_image, texture0, cb_stale >>
    /\ UNCHANGED << reloadVars, geomVars, swapVars, auxVars >>
    /\ UNCHANGED image_of

\* acquire_next_image with the slot's image_available_semaphore: the
\* suboptimal flag of an Ok is ignored, on ERROR_OUT_OF_DATE_KHR draw_frame
\* returns true into dirty_swapchain, and any other error panics.
FrameAcquire(res) ==
    /\ fpc.st = "acquire"
    /\ IF res = "error"
       THEN /\ fpc' = Fpc("panic", fpc.i)
            /\ frame_log' = [frame_log EXCEPT !.acquire = res]
            /\ UNCHANGED << gap, ring_log, dirty_swapchain, needs_recreate >>
       ELSE LET ok == res # "out_of_date"
                st == AfterAcquire(ok)
            IN  /\ gap' = [gap EXCEPT ![fpc.i] =
                              [prev |-> ring_log[fpc.i].prev,
                               waited |-> ring_log[fpc.i].waited,
                               reset |-> ring_log[fpc.i].reset,
                               signaled |-> fence[fpc.i]]]
                /\ ring_log' = [ring_log EXCEPT ![fpc.i] =
                                   [prev |-> IF ok THEN "ok"
                                             ELSE "out_of_date",
                                    waited |-> FALSE, reset |-> FALSE]]
                /\ fpc' = Fpc(st, IF st = "idle" THEN 0 ELSE fpc.i)
                /\ frame_log' =
                       [frame_log EXCEPT
                           !.acquire = res,
                           !.ret = IF st = "idle" THEN "true" ELSE @]
                /\ dirty_swapchain' =
                       IF st = "idle" THEN TRUE ELSE dirty_swapchain
                /\ needs_recreate' =
                       IF st = "idle" THEN TRUE ELSE needs_recreate
    /\ UNCHANGED << current_frame, fence, submitted, window, rs_call >>
    /\ UNCHANGED << atw_skipped, load_next_image, texture0, cb_stale >>
    /\ UNCHANGED << reloadVars, geomVars, swapVars, auxVars >>
    /\ \E k \in SwapchainImages :
          image_of' = IF res \in {"error", "out_of_date"} THEN image_of
                      ELSE [image_of EXCEPT ![fpc.i] = k]

\* reset_fences, after a successful acquire only.
FrameResetFence ==
    /\ fpc.st = "reset"
    /\ fence' = [fence EXCEPT ![fpc.i] = FALSE]
    /\ ring_log' = [ring_log EXCEPT ![fpc.i].reset = TRUE]
    /\ frame_log' = [frame_log EXCEPT !.reset = TRUE]
    /\ fpc' = Fpc("ubo", fpc.i)
    /\ UNCHANGED << current_frame, submitted, gap, window, needs_recreate,
                    rs_call, dirty_swapchain >>
    /\ UNCHANGED << atw_skipped, load_next_image, texture0, cb_stale >>
    /\ UNCHANGED << reloadVars, geomVars, swapVars, auxVars >>
    /\ UNCHANGED image_of

\* update_uniform_buffers for the acquired image.
FrameUpdateUniformBuffers ==
    /\ fpc.st = "ubo"
    /\ frame_log' = [frame_log EXCEPT !.ubo = TRUE]
    /\ fpc' = Fpc("submit", fpc.i)
    /\ UNCHANGED << current_frame, fence, submitted, ring_log, gap, window,
                    needs_recreate, rs_call, dirty_swapchain >>
    /\ UNCHANGED << atw_skipped, load_next_image, texture0, cb_stale >>
    /\ UNCHANGED << reloadVars, geomVars, swapVars, auxVars >>
    /\ UNCHANGED image_of

\* queue_submit with the slot's fence.
FrameSubmit ==
    /\ fpc.st = "submit"
    /\ submitted' = [submitted EXCEPT ![fpc.i] = TRUE]
    /\ frame_log' = [frame_log EXCEPT !.submit = TRUE]
    /\ fpc' = Fpc("present", fpc.i)
    /\ UNCHANGED << current_frame, fence, ring_log, gap, window,
                    needs_recreate, rs_call, dirty_swapchain >>
    /\ UNCHANGED << atw_skipped, load_next_image, texture0, cb_stale >>
    /\ UNCHANGED << reloadVars, geomVars, swapVars, auxVars >>
    /\ UNCHANGED image_of

\* queue_present; its result is draw_frame's return value, which
\* about_to_wait stores in dirty_swapchain; an error that is not
\* ERROR_OUT_OF_DATE_KHR panics.
FramePresent(res) ==
    /\ fpc.st = "present"
    /\ IF res = "error"
       THEN /\ fpc' = Fpc("panic", fpc.i)
            /\ frame_log' = [frame_log EXCEPT !.present = res]
            /\ UNCHANGED << dirty_swapchain, needs_recreate >>
       ELSE /\ fpc' = Fpc("idle", 0)
            /\ frame_log' =
                   [frame_log EXCEPT
                       !.present = res,
                       !.ret = IF PresentReturn(res) THEN "true"
                               ELSE "false"]
            /\ dirty_swapchain' = PresentReturn(res)
            /\ needs_recreate' = (needs_recreate \/ PresentReturn(res))
    /\ UNCHANGED << current_frame, fence, submitted, ring_log, gap, window,
                    rs_call >>
    /\ UNCHANGED << atw_skipped, load_next_image, texture0, cb_stale >>
    /\ UNCHANGED << reloadVars, geomVars, swapVars, auxVars >>
    /\ UNCHANGED image_of

\* The GPU finishes the submission of slot i and signals its fence.
GpuComplete(i) ==
    /\ submitted[i]
    /\ submitted' = [submitted EXCEPT ![i] = FALSE]
    /\ fence' = [fence EXCEPT ![i] = TRUE]
    /\ UNCHANGED << current_frame, fpc, ring_log, gap, window, frame_log,
                    needs_recreate, rs_call, dirty_swapchain >>
    /\ UNCHANGED << atw_skipped, load_next_image, texture0, cb_stale >>
    /\ UNCHANGED << reloadVars, geomVars, swapVars, auxVars >>
    /\ image_of' = [image_of EXCEPT ![i] = None]

\* window_event, WindowEvent::Resized: the window has a new inner size,
\* zero when it is minimized.
FrameResized(size) ==
    /\ fpc.st = "idle"
    /\ window' = size
    /\ dirty_swapchain' = TRUE
    /\ atw_skipped' = FALSE
    /\ UNCHANGED << current_frame, fence, submitted, fpc, ring_log, gap,
                    frame_log, needs_recreate, rs_call >>
    /\ UNCHANGED << load_next_image, texture0, cb_stale >>
    /\ UNCHANGED << reloadVars, geomVars, swapVars, auxVars >>
    /\ UNCHANGED image_of

\* window_event, key "i": the next image is to be loaded.
FrameKeyImage ==
    /\ fpc.st = "idle"
    /\ load_next_image' = TRUE
    /\ UNCHANGED << current_frame, fence, submitted, fpc, ring_log, gap,
                    window, frame_log, needs_recreate, rs_call, atw_skipped,
                    texture0, cb_stale, dirty_swapchain >>
    /\ UNCHANGED << reloadVars, geomVars, swapVars, auxVars >>
    /\ UNCHANGED image_of

\* about_to_wait's load_next_image block. load_new_texture waits for the
\* GPU, destroys textures[0] and creates the new texture; when that fails it
\* returns the error at once, and otherwise it updates the descriptor sets,
\* stores the texture and calls recreate_command_buffers. about_to_wait
\* logs an error and goes on to draw_frame.
FrameLoadNewTexture(res) ==
    /\ fpc.st = "texture"
    /\ IF res = "no_image"
       THEN UNCHANGED << texture0, cb_stale >>
       ELSE /\ \A i \in FrameSlots : ~submitted[i]
            /\ texture0' = IF res = "loaded" THEN "live"
                           ELSE TextureDestroy(texture0)
            /\ cb_stale' = (res # "loaded")
    /\ load_next_image' = FALSE
    /\ fpc' = Fpc("next", 0)
    /\ UNCHANGED << current_frame, fence, submitted, ring_log, gap, window,
                    frame_log, needs_recreate, rs_call, atw_skipped,
                    dirty_swapchain >>
    /\ UNCHANGED << reloadVars, geomVars, swapVars, auxVars >>
    /\ UNCHANGED image_of

NextFrame ==
    \/ FrameAboutToWait
    \/ FrameRecreateSwapchain
    \/ FrameNext
    \/ FrameWaitFence
    \/ \E res \in SwapchainResults : FrameAcquire(res)
    \/ FrameResetFence
    \/ FrameUpdateUniformBuffers
    \/ FrameSubmit
    \/ \E res \in SwapchainResults : FramePresent(res)
    \/ \E i \in FrameSlots : GpuComplete(i)
    \/ \E size \in WindowSizes : FrameResized(size)
    \/ FrameKeyImage
    \/ \E res \in LoadResults : FrameLoadNewTexture(res)

SpecFrame == Init /\ [][NextFrame]_vars

-----------------------------------------------------------------------------
(* Geometry handles: new, clone and cleanup in any order.                   *)

GeometryNewCall(n) ==
    /\ geometries[n] = NoGeometry
    /\ geometries' = [geometries EXCEPT ![n] = GeometryNew]
    /\ UNCHANGED << reloadVars, dirty_swapchain, frameVars, swapVars, auxVars >>

\* clone() of handle h, which has not been cleaned up.
GeometryCloneCall(n, h) ==
    /\ h \in DOMAIN geometries[n].rc
    /\ geometries[n].rc[h]
    /\ Len(geometries[n].rc) < MaxClones + 1
    /\ geometries' = [geometries EXCEPT ![n] = GeometryClone(@)]
    /\ UNCHANGED << reloadVars, dirty_swapchain, frameVars, swapVars, auxVars >>

\* cleanup() of handle h; it consumes the handle.
GeometryCleanupCall(n, h) ==
    /\ h \in DOMAIN geometries[n].rc
    /\ geometries[n].rc[h]
    /\ geometries' = [geometries EXCEPT ![n] = GeometryCleanup(@, h)]
    /\ UNCHANGED << reloadVars, dirty_swapchain, frameVars, swapVars, auxVars >>

NextGeom ==
    \/ \E n \in GeometryNames : GeometryNewCall(n)
    \/ \E n \in GeometryNames, h \in 1 .. MaxClones + 1 :
          GeometryCloneCall(n, h)
    \/ \E n \in GeometryNames, h \in 1 .. MaxClones + 1 :
          GeometryCleanupCall(n, h)

SpecGeom == Init /\ [][NextGeom]_vars

-----------------------------------------------------------------------------
(* Pipeline::recreate called twice in succession, the slots changed by      *)
(* nothing but the calls themselves.                                        *)

\* A pipeline and its two slots as a poll of draw_frame or a
\* recreate_swapchain may find them.
RecreateChoose(pl, vs, fs) ==
    /\ recreate_call.st = "none"
    /\ recreate_call' =
           [st |-> "chosen", pl |-> pl, vs |-> vs, fs |-> fs,
            live |-> IF Get(pl) # NoPipeline THEN 1 ELSE 0, once |-> <<>>]
    /\ UNCHANGED << coreVars, lockVars, dropVars, lifeVars, calc >>

\* The first and the second call.
RecreateCall ==
    /\ recreate_call.st \in {"chosen", "once"}
    /\ LET r == PipelineRecreate(recreate_call.pl, recreate_call.vs,
                                 recreate_call.fs)
       IN  recreate_call' =
               [st |-> IF recreate_call.st = "chosen" THEN "once"
                       ELSE "twice",
                pl |-> r.pl, vs |-> r.vs, fs |-> r.fs,
                live |-> recreate_call.live - r.destroyed + r.created,
                once |-> IF recreate_call.st = "chosen"
                         THEN << r.pl, r.vs, r.fs >>
                         ELSE recreate_call.once]
    /\ UNCHANGED << coreVars, lockVars, dropVars, lifeVars, calc >>

\* The pair of calls is over.
RecreateDone ==
    /\ recreate_call.st = "twice"
    /\ recreate_call' = RecreateCallNew
    /\ UNCHANGED << coreVars, lockVars, dropVars, lifeVars, calc >>

NextRecreate ==
    \/ \E in \in RecreateInputs : RecreateChoose(in[1], in[2], in[3])
    \/ RecreateCall
    \/ RecreateDone

SpecRecreate == Init /\ [][NextRecreate]_vars

-----------------------------------------------------------------------------
(* Values of the three kinds cleaned up, rebuilt and dropped in any order.  *)

\* The process has been aborted by a panic raised during unwinding.
DropAborted == \E k \in DropKinds : dropped.val[k].outcome = "abort"

\* cleanup: Pipeline::cleanup_pip and ShaderInner::cleanup take and destroy
\* the object; Geometry::cleanup takes self by value, so the handle is
\* dropped, its rc taken, when the call returns.
DropCleanup(k) ==
    /\ ~dropped.panicking
    /\ dropped.val[k].st = "held"
    /\ dropped.val[k].live
    /\ dropped' =
           [dropped EXCEPT
               !.val[k].live = FALSE,
               !.val[k].st = IF k = "Geometry" THEN "dropped" ELSE @,
               !.val[k].outcome =
                   IF k = "Geometry" THEN GeometryDrop(FALSE, FALSE) ELSE @]
    /\ UNCHANGED << coreVars, recreateVars, lockVars, lifeVars, calc >>

\* Pipeline::recreate and ShaderInner::load_module store a new object in a
\* value that holds none.
DropRebuild(k) ==
    /\ ~dropped.panicking
    /\ k # "Geometry"
    /\ dropped.val[k].st = "held"
    /\ ~dropped.val[k].live
    /\ dropped' = [dropped EXCEPT !.val[k].live = TRUE]
    /\ UNCHANGED << coreVars, recreateVars, lockVars, lifeVars, calc >>

\* A panic elsewhere in the thread, such as the expect of
\* bind_to_cmd_buffer: the thread unwinds and drops what it holds.
DropUnwind ==
    /\ ~dropped.panicking
    /\ dropped' = [dropped EXCEPT !.panicking = TRUE]
    /\ UNCHANGED << coreVars, recreateVars, lockVars, lifeVars, calc >>

\* The value of kind k goes out of scope, or is dropped by the unwinding.
DropValue(k) ==
    /\ ~DropAborted
    /\ dropped.val[k].st = "held"
    /\ LET out == DropOf(k, dropped.val[k].live, dropped.panicking)
       IN  dropped' =
               [dropped EXCEPT
                   !.val[k].st = "dropped",
                   !.val[k].outcome = out,
                   !.panicking = @ \/ out = "panic"]
    /\ UNCHANGED << coreVars, recreateVars, lockVars, lifeVars, calc >>

NextDrop ==
    \/ \E k \in DropKinds : DropCleanup(k)
    \/ \E k \in DropKinds : DropRebuild(k)
    \/ DropUnwind
    \/ \E k \in DropKinds : DropValue(k)

SpecDrop == Init /\ [][NextDrop]_vars

-----------------------------------------------------------------------------
(* The lock of one Shader, guard by guard: the calls of the render thread   *)
(* (set_hot_reload, reload, module, cleanup), compile_code on the worker    *)
(* and the watcher.  A pc ending in "_gpu" is a create_shader_module or     *)
(* destroy_shader_module call in progress, "compiler" is                    *)
(* ShaderInner::compile_code in progress.                                   *)

\* RwLock::read and RwLock::write return once the guard can be given.
CanRead == lock.writer = "none"
CanWrite == lock.writer = "none" /\ lock.readers = {}

\* A compile_code_helper that keeps its read guard while it compiles.
HelperDropInner_Kept(readers) == readers

\* compile_code_helper's drop(inner) before it compiles.
HelperDropInner(readers) == readers \ {"worker"}

\* Shader::set_hot_reload: the write guard is dropped before the send.
LockSetHotReload ==
    /\ \/ /\ lpc.render = "idle" /\ CanWrite
          /\ lock' = [lock EXCEPT !.writer = "render"]
          /\ lpc' = [lpc EXCEPT !.render = "hot_write"]
       \/ /\ lpc.render = "hot_write"
          /\ LET r == SetHotReload(lock.inner)
             IN  /\ lock' = [lock EXCEPT !.writer = "none", !.inner = r.slot]
                 /\ lpc' = [lpc EXCEPT !.render =
                                IF r.sent THEN "hot_send" ELSE "idle"]
       \/ /\ lpc.render = "hot_send"
          /\ lock' = [lock EXCEPT !.jobs = @ + 1]
          /\ lpc' = [lpc EXCEPT !.render = "idle"]
    /\ UNCHANGED << coreVars, recreateVars, dropVars, lifeVars, calc >>

\* Shader::reload: a read guard for the path, then the write guard, which
\* is held over the send and over inner.cleanup(device).
LockReload(forced) ==
    /\ \/ /\ lpc.render = "idle" /\ CanRead
          /\ lock' = [lock EXCEPT !.readers = @ \cup {"render"}]
          /\ lpc' = [lpc EXCEPT !.render = "reload_read", !.forced = forced]
       \/ /\ lpc.render = "reload_read" /\ lpc.forced = forced
          /\ lock' = [lock EXCEPT !.readers = @ \ {"render"}]
          /\ lpc' = [lpc EXCEPT !.render = "reload_want"]
       \/ /\ lpc.render = "reload_want" /\ lpc.forced = forced /\ CanWrite
          /\ lock' = [lock EXCEPT !.writer = "render"]
          /\ lpc' = [lpc EXCEPT !.render = "reload_write"]
       \/ /\ lpc.render = "reload_write" /\ lpc.forced = forced
          /\ LET r == ShaderReload(lock.inner, forced)
                 gpu == r.sent /\ lock.inner.module # None
             IN  /\ lock' = [lock EXCEPT
                                !.inner = r.slot,
                                !.jobs = IF r.sent THEN @ + 1 ELSE @,
                                !.writer = IF gpu THEN @ ELSE "none"]
                 /\ lpc' = [lpc EXCEPT !.render =
                                IF gpu THEN "reload_gpu" ELSE "idle"]
       \/ /\ lpc.render = "reload_gpu" /\ lpc.forced = forced
          /\ lock' = [lock EXCEPT !.writer = "none"]
          /\ lpc' = [lpc EXCEPT !.render = "idle"]
    /\ UNCHANGED << coreVars, recreateVars, dropVars, lifeVars, calc >>

\* Shader::module: a read guard, dropped before the write guard under which
\* load_module creates the module.
LockModule ==
    /\ \/ /\ lpc.render = "idle" /\ CanRead
          /\ lock' = [lock EXCEPT !.readers = @ \cup {"render"}]
          /\ lpc' = [lpc EXCEPT !.render = "module_read"]
       \/ /\ lpc.render = "module_read"
          /\ lock' = [lock EXCEPT !.readers = @ \ {"render"}]
          /\ lpc' = [lpc EXCEPT !.render =
                         IF lock.inner.module = None /\ lock.inner.code # None
                         THEN "module_want" ELSE "idle"]
       \/ /\ lpc.render = "module_want" /\ CanWrite
          /\ lock' = [lock EXCEPT !.writer = "render"]
          /\ lpc' = [lpc EXCEPT !.render = "module_gpu"]
       \/ /\ lpc.render = "module_gpu"
          /\ lock' = [lock EXCEPT !.writer = "none",
                                  !.inner = LoadModule(@)]
          /\ lpc' = [lpc EXCEPT !.render = "idle"]
    /\ UNCHANGED << coreVars, recreateVars, dropVars, lifeVars, calc >>

\* Shader::cleanup: inner.cleanup(device) under the write guard.
LockCleanup ==
    /\ \/ /\ lpc.render = "idle" /\ CanWrite
          /\ lock.inner.module # None
          /\ lock' = [lock EXCEPT !.writer = "render",
                                  !.inner = InnerCleanup(@)]
          /\ lpc' = [lpc EXCEPT !.render = "cleanup_gpu"]
       \/ /\ lpc.render = "cleanup_gpu"
          /\ lock' = [lock EXCEPT !.writer = "none"]
          /\ lpc' = [lpc EXCEPT !.render = "idle"]
    /\ UNCHANGED << coreVars, recreateVars, dropVars, lifeVars, calc >>

\* The worker: rx.recv(), then Shader::compile_code.  The helper reads
\* stage and path under a read guard, drops it, compiles, and stores the
\* bytecode under a write guard; compile_code clears is_compiling under
\* another.
LockCompileCode ==
    /\ \/ /\ lpc.worker = "idle" /\ lock.jobs > 0 /\ CanRead
          /\ lock' = [lock EXCEPT !.jobs = @ - 1,
                                  !.readers = @ \cup {"worker"}]
          /\ lpc' = [lpc EXCEPT !.worker = "helper_read"]
       \/ /\ lpc.worker = "helper_read"
          /\ lock' = [lock EXCEPT !.readers = HelperDropInner(@)]
          /\ lpc' = [lpc EXCEPT !.worker = "compiler"]
       \/ /\ lpc.worker = "compiler"
          /\ \E valid \in BOOLEAN :
                 lpc' = [lpc EXCEPT !.worker =
                            IF CompileCode(0, valid) # None
                            THEN "helper_store" ELSE "finish"]
          /\ UNCHANGED lock
       \/ /\ lpc.worker = "helper_store" /\ CanWrite
          /\ lock' = [lock EXCEPT !.inner = CompileStore(@, 0)]
          /\ lpc' = [lpc EXCEPT !.worker = "finish"]
       \/ /\ lpc.worker = "finish" /\ CanWrite
          /\ lock' = [lock EXCEPT !.inner = CompileFinish(@)]
          /\ lpc' = [lpc EXCEPT !.worker = "idle"]
    /\ UNCHANGED << coreVars, recreateVars, dropVars, lifeVars, calc >>

\* watch_art's event loop sets code_has_changed under the write guard.
LockWatch ==
    /\ CanWrite
    /\ lock.inner.compile_sender
    /\ lock' = [lock EXCEPT !.inner = WatchEvent(@)]
    /\ UNCHANGED lpc
    /\ UNCHANGED << coreVars, recreateVars, dropVars, lifeVars, calc >>

NextLock ==
    \/ LockSetHotReload
    \/ \E forced \in BOOLEAN : LockReload(forced)
    \/ LockModule
    \/ LockCleanup
    \/ LockCompileCode
    \/ LockWatch

SpecLock == Init /\ [][NextLock]_vars

-----------------------------------------------------------------------------
(* recreate_swapchain, statement by statement, called with any size.        *)

\* A frame is submitted between two calls.
SwapSubmit ==
    /\ swap_pc.st = "idle"
    /\ ~gpu_busy
    /\ gpu_busy' = TRUE
    /\ UNCHANGED << swap_pc, swap_args, bundle, command_buffers, swap_log >>
    /\ UNCHANGED << reloadVars, dirty_swapchain, frameVars, geomVars, auxVars >>

\* The GPU finishes the submitted frame.
SwapGpuComplete ==
    /\ gpu_busy
    /\ gpu_busy' = FALSE
    /\ UNCHANGED << swap_pc, swap_args, bundle, command_buffers, swap_log >>
    /\ UNCHANGED << reloadVars, dirty_swapchain, frameVars, geomVars, auxVars >>

\* recreate_swapchain(width, height) is entered.
RecreateSwapchainCall(size) ==
    /\ swap_pc.st = "idle"
    /\ swap_pc' = Spc("check", 0)
    /\ swap_args' = size
    /\ swap_log' = <<>>
    /\ UNCHANGED << bundle, command_buffers, gpu_busy >>
    /\ UNCHANGED << reloadVars, dirty_swapchain, frameVars, geomVars, auxVars >>

\* The test of the dimensions, and the panic.
RsCheckDimensions ==
    /\ swap_pc.st = "check"
    /\ swap_pc' = IF InvalidDimensions(swap_args)
                  THEN Spc("panic", 0)
                  ELSE Spc("wait", 0)
    /\ UNCHANGED << swap_args, bundle, command_buffers, swap_log, gpu_busy >>
    /\ UNCHANGED << reloadVars, dirty_swapchain, frameVars, geomVars, auxVars >>

\* wait_gpu_idle returns once the GPU has finished.
RsWaitGpuIdle ==
    /\ swap_pc.st = "wait"
    /\ ~gpu_busy
    /\ swap_log' = Append(swap_log, << "wait", "device" >>)
    /\ swap_pc' = Spc("destroy", 1)
    /\ UNCHANGED << swap_args, bundle, command_buffers, gpu_busy >>
    /\ UNCHANGED << reloadVars, dirty_swapchain, frameVars, geomVars, auxVars >>

\* One statement of cleanup_swapchain.
RsDestroy ==
    /\ swap_pc.st = "destroy"
    /\ LET c == CleanupOrder[swap_pc.k] IN
        /\ bundle' = [bundle EXCEPT ![c] = NoObject]
        /\ swap_log' = Append(swap_log, << "destroy", c >>)
    /\ swap_pc' = IF swap_pc.k < Len(CleanupOrder)
                  THEN Spc("destroy", swap_pc.k + 1)
                  ELSE Spc("create", 1)
    /\ UNCHANGED << swap_args, command_buffers, gpu_busy >>
    /\ UNCHANGED << reloadVars, dirty_swapchain, frameVars, geomVars, auxVars >>

\* One creating statement of recreate_swapchain.
RsCreate ==
    /\ swap_pc.st = "create"
    /\ LET c == CreateOrder[swap_pc.k] IN
        /\ bundle' = [bundle EXCEPT ![c] = swap_args]
        /\ swap_log' = Append(swap_log, << "create", c >>)
    /\ swap_pc' = IF swap_pc.k < Len(CreateOrder)
                  THEN Spc("create", swap_pc.k + 1)
                  ELSE Spc("record", 0)
    /\ UNCHANGED << swap_args, command_buffers, gpu_busy >>
    /\ UNCHANGED << reloadVars, dirty_swapchain, frameVars, geomVars, auxVars >>

\* The fields are assigned and recreate_command_buffers records against the
\* new framebuffers.
RsRecord ==
    /\ swap_pc.st = "record"
    /\ command_buffers' = bundle["framebuffers"]
    /\ swap_log' = Append(swap_log, << "record", "command_buffers" >>)
    /\ swap_pc' = Spc("idle", 0)
    /\ UNCHANGED << swap_args, bundle, gpu_busy >>
    /\ UNCHANGED << reloadVars, dirty_swapchain, frameVars, geomVars, auxVars >>

NextSwap ==
    \/ SwapSubmit
    \/ SwapGpuComplete
    \/ \E size \in SwapSizes : RecreateSwapchainCall(size)
    \/ RsCheckDimensions
    \/ RsWaitGpuIdle
    \/ RsDestroy
    \/ RsCreate
    \/ RsRecord

SpecSwap == Init /\ [][NextSwap]_vars

-----------------------------------------------------------------------------
(* Notions shared by the properties. *)

\* Number of compile jobs of slot s on the channel or held by the worker.
InFlight(s) ==
    Cardinality({k \in DOMAIN queue : queue[k] = s})
        + (IF worker.job = s THEN 1 ELSE 0)

\* The render thread is inside a Pipeline operation on pipeline p: new,
\* recreate, reload_shaders, or the cleanup_pip .. recreate pair of
\* recreate_swapchain.
InOperation(p) ==
    \/ rpc.op = "new" /\ rpc.st = "hot"
    \/ rpc.op = "new" /\ rpc.st \in {"m0", "m1"} /\ rpc.i <= p
    \/ rpc.op = "rs" /\ rpc.st \in {"m0", "m1"} /\ rpc.i <= p
    \/ rpc.st \in {"m1", "r1"} /\ rpc.i = p

\* The render thread has panicked: no more frames are drawn.
Panicked == rpc.op = "panic"

\* The handle of pipeline p was built from modules of the current sources.
Fresh(p) ==
    Get(pipelines[p]) = << fileVer[Shaders(p)[1]], fileVer[Shaders(p)[2]] >>

\* A file was modified, every source is valid, and no modification follows.
Settled == edits = MaxEdits /\ \A s \in ArtSlots : fileValid[s]

\* Both slots of pipeline p hold a live module.
BothModulesLive(p) ==
    /\ slot[Shaders(p)[1]].module # None
    /\ slot[Shaders(p)[2]].module # None

-----------------------------------------------------------------------------
\* C1: each slot has at most one compile job queued on the channel or being
\* processed by the worker, in every interleaving of render thread, watcher
\* and worker, also for the vertex slot shared by both art pipelines.
C1_OneJobPerSlot == \A s \in ArtSlots : InFlight(s) <= 1

\* C1 witness: the reload loop of draw_frame has passed both pipelines that
\* share art2d_vert while the job it queued for that slot is still in flight,
\* after set_hot_reload had been called on the slot twice.
C1_Witness ==
    /\ rpc.op = "df" /\ rpc.st = "cb"
    /\ compile_log["art2d_vert"] = "queued"
    /\ InFlight("art2d_vert") = 1
    /\ pipelines[2].waiting_for_shaders /\ pipelines[3].waiting_for_shaders

-----------------------------------------------------------------------------
-----------------------------------------------------------------------------
\* C3: between Pipeline operations, waiting_for_shaders is true exactly when
\* the pipeline has no GPU pipeline+layout handle.
C3_WaitingIffNoHandle ==
    \A p \in PipelineIds :
        ~InOperation(p) =>
            ( pipelines[p].waiting_for_shaders
                <=> Get(pipelines[p]) = NoPipeline )

-----------------------------------------------------------------------------
\* C4: between two about_to_wait calls, a pipeline holds a GPU pipeline
\* handle if and only if both of its slots hold a live module.
C4_HandleIffModulesLive ==
    rpc.op = "idle" =>
        \A p \in PipelineIds :
            (Get(pipelines[p]) # NoPipeline) <=> BothModulesLive(p)

-----------------------------------------------------------------------------
\* C5 as stated: between two consecutive acquires issued with the semaphore
\* of in-flight slot i, the fence of slot i is waited on and reset.
C5_FenceWaitedAndReset ==
    \A i \in FrameSlots :
        gap[i].prev # "none" => (gap[i].waited /\ gap[i].reset)

\* C5 amended: between two consecutive acquires of slot i the fence is
\* waited on, so it is signaled at the later acquire; it is reset between
\* them exactly when the earlier acquire succeeded, because draw_frame
\* returns before reset_fences on an out-of-date acquire.
C5_FenceWaitedResetAfterSuccess ==
    \A i \in FrameSlots :
        gap[i].prev # "none" =>
            /\ gap[i].waited
            /\ gap[i].signaled
            /\ gap[i].reset <=> (gap[i].prev = "ok")

\* C5 witness: an acquire was issued with a slot whose previous acquire was
\* out of date; its fence was waited on but not reset in between.
C5_Witness ==
    \E i \in FrameSlots :
        /\ gap[i].prev = "out_of_date"
        /\ gap[i].waited /\ ~gap[i].reset
        /\ ring_log[i].prev = "ok"

-----------------------------------------------------------------------------
\* C6: after Geometry::new, N clones and a cleanup of each of the N+1
\* handles in any order, the buffers are freed exactly once, by the cleanup
\* of the last outstanding handle, never while another handle is outstanding.
C6_FreedOnceByLastCleanup ==
    \A n \in GeometryNames :
        LET g == geometries[n] IN
        /\ g.freed <= 1
        /\ ~g.early
        /\ g.freed = 1 <=> (g.rc # <<>> /\ \A h \in DOMAIN g.rc : ~g.rc[h])

\* C6 witness: a Geometry cloned MaxClones times and another never cloned
\* have had all their handles cleaned up, and each was freed once.
C6_Witness ==
    /\ Len(geometries["geometry_skybox"].rc) = MaxClones + 1
    /\ Len(geometries["geometry_quad"].rc) = 1
    /\ \A n \in GeometryNames :
          /\ \A h \in DOMAIN geometries[n].rc : ~geometries[n].rc[h]
          /\ geometries[n].freed = 1

-----------------------------------------------------------------------------
\* C7: once a watched file has been modified to valid source and no further
\* modification follows, every art pipeline eventually holds a handle built
\* from the current sources, as long as frames keep being drawn; here even
\* on the assumption that key presses and swapchain recreations cease.
C7_EditReachesPipeline ==
    \/ []<>reload_key
    \/ []<>dirty_swapchain
    \/ \A p \in ArtPipelineIds : Settled ~> (Panicked \/ Fresh(p))

-----------------------------------------------------------------------------
-----------------------------------------------------------------------------
\* C9 as stated: a slot's dirty bit is cleared only in the step in which the
\* worker starts a compile job of that slot.
C9_ClearedOnlyAtJobStart ==
    [][\A s \in ArtSlots :
          (slot[s].code_has_changed /\ ~slot'[s].code_has_changed)
              => (worker.job # s /\ worker'.job = s)]_vars

\* C9 amended: the dirty bit is cleared only by reload(), in the critical
\* section that queues the job, so it is already clear while the job waits on
\* the channel; the worker never clears it.
C9_ClearedOnlyAtRequest ==
    [][\A s \in ArtSlots :
          (slot[s].code_has_changed /\ ~slot'[s].code_has_changed)
              => /\ InFlight(s) = 0
                 /\ queue' = Append(queue, s)
                 /\ slot'[s].is_compiling
                 /\ worker' = worker]_vars

\* C9 witness: a job requested by draw_frame's reload (not forced, so the
\* dirty bit was set) is on the channel, not started, and the bit is clear.
C9_Witness ==
    \E s \in ArtSlots :
        /\ rpc.op = "df"
        /\ last_reload.s = s /\ last_reload.sent
        /\ \E k \in DOMAIN queue : queue[k] = s
        /\ ~slot[s].code_has_changed

-----------------------------------------------------------------------------
\* C10: Shader::reload on a slot whose compile is in flight enqueues nothing
\* and leaves the slot (module, bytecode, dirty bit) as it is; it returns
\* true, so the calling pipeline waits.
C10_ReloadWhileCompilingIsNoop ==
    [][\A k \in {1, 2} :
          LET s == Shaders(rpc.i)[k] IN
          ( /\ rpc.op \in {"rl", "df"}
            /\ rpc.st = (IF k = 1 THEN "r0" ELSE "r1")
            /\ rpc' # rpc
            /\ slot[s].is_compiling )
          => /\ slot'[s] = slot[s]
             /\ queue' = queue
             /\ pipelines'[rpc.i].waiting_for_shaders
             /\ rpc'.st # "r1"]_vars

\* C10 witness: the second pipeline sharing art2d_vert has just called
\* reload on it while the job queued through the first pipeline is in
\* flight.
C10_Witness ==
    /\ last_reload.s = "art2d_vert"
    /\ last_reload.busy /\ last_reload.ret /\ ~last_reload.sent
    /\ pipelines[3].waiting_for_shaders
    /\ InFlight("art2d_vert") = 1
    /\ rpc.st = "cb"

-----------------------------------------------------------------------------
\* The draw_frame call has returned to about_to_wait.
Returned == fpc.st \in {"idle", "recreate", "texture", "next"}

\* C11: when acquire_next_image reports out-of-date, draw_frame returns
\* true at once: it has not reset the fence of the slot, not written the
\* uniform buffer, submitted no command buffer and not presented.
C11_OutOfDateAcquireReturnsEarly ==
    frame_log.acquire = "out_of_date" =>
        /\ Returned
        /\ frame_log.ret = "true"
        /\ ~frame_log.reset
        /\ ~frame_log.ubo
        /\ ~frame_log.submit
        /\ frame_log.present = "none"

\* C11 witness: a draw_frame call whose acquire was out of date has
\* returned true and set dirty_swapchain.
C11_Witness ==
    /\ frame_log.acquire = "out_of_date"
    /\ frame_log.ret = "true"
    /\ dirty_swapchain
    /\ fpc.st = "idle"

-----------------------------------------------------------------------------
\* C12 as stated: draw_frame returns true if and only if its acquire or its
\* present reported an out-of-date or a suboptimal swapchain, and it panics
\* on neither.
C12_TrueIffOutOfDateOrSuboptimal ==
    /\ frame_log.ret # "none" =>
           (frame_log.ret = "true" <=>
               \/ frame_log.acquire \in {"out_of_date", "suboptimal"}
               \/ frame_log.present \in {"out_of_date", "suboptimal"})
    /\ fpc.st = "panic" =>
           (frame_log.acquire = "error" \/ frame_log.present = "error")

\* C12 amended: draw_frame returns true if and only if its acquire reported
\* out-of-date or its present reported out-of-date or suboptimal; the
\* suboptimal flag of a successful acquire is dropped, so that call returns
\* what its present returns. It panics only on another error of the acquire
\* or of the present.
C12_TrueIffOutOfDateOrSuboptimalPresent ==
    /\ frame_log.ret # "none" =>
           (frame_log.ret = "true" <=>
               \/ frame_log.acquire = "out_of_date"
               \/ frame_log.present \in {"out_of_date", "suboptimal"})
    /\ fpc.st = "panic" =>
           (frame_log.acquire = "error" \/ frame_log.present = "error")

\* C12 witness: a call whose acquire was suboptimal and whose present was
\* a plain success has returned false, and dirty_swapchain is clear.
C12_Witness ==
    /\ frame_log.acquire = "suboptimal"
    /\ frame_log.present = "ok"
    /\ frame_log.ret = "false"
    /\ ~dirty_swapchain

-----------------------------------------------------------------------------
\* C13: after draw_frame has returned true, no draw_frame runs (so no frame
\* is acquired or submitted) until a recreate_swapchain has completed.
C13_RecreateBeforeNextFrame ==
    needs_recreate => fpc.st \in {"idle", "recreate", "panic"}

\* C13 witness: the draw_frame that follows a completed recreation is
\* running, after a draw_frame that returned true.
C13_Witness ==
    /\ rs_call # NoCall
    /\ ~needs_recreate
    /\ dirty_swapchain
    /\ fpc.st = "next"
    /\ frame_log.ret = "true"

-----------------------------------------------------------------------------
\* The window has a zero width or height.
ZeroSized == window.width = 0 \/ window.height = 0

\* C14: while dirty_swapchain is set and the window has a zero width or
\* height, no step recreates the swapchain or starts a draw_frame, and
\* dirty_swapchain stays set; recreate_swapchain is never called with a zero
\* width or height.
C14_ZeroSizeDefersRecreation ==
    [][/\ (dirty_swapchain /\ ZeroSized /\ fpc.st = "idle") =>
              (fpc' = fpc /\ dirty_swapchain' /\ rs_call' = rs_call)
       /\ rs_call' # NoCall => (rs_call'[1] > 0 /\ rs_call'[2] > 0)]_vars

\* C14 witness: about_to_wait has returned without recreating or drawing,
\* with a recreation pending for a minimized window, after frames were drawn
\* and an earlier recreation was made with a positive size.
C14_Witness ==
    /\ dirty_swapchain
    /\ ZeroSized
    /\ atw_skipped
    /\ fpc.st = "idle"
    /\ rs_call = << WIDTH, HEIGHT >>
    /\ frame_log.submit

-----------------------------------------------------------------------------
\* C15: recreate_swapchain called with width = 0 or height = 0 panics at
\* its first statement: it has not waited for the device, and has destroyed,
\* created and recorded nothing, so the bundle and the command buffers are
\* as they were at the call.
C15_ZeroDimensionPanicsFirst ==
    [][/\ ( /\ swap_pc.st = "check"
            /\ swap_args.width = 0 \/ swap_args.height = 0
            /\ swap_pc' # swap_pc ) =>
              /\ swap_pc'.st = "panic"
              /\ UNCHANGED << bundle, command_buffers, swap_log >>
       /\ swap_pc'.st = "panic" =>
              /\ swap_log' = <<>>
              /\ \A c \in BundleClasses : bundle'[c] # NoObject]_vars

\* C15 witness: a call with width zero and a positive height has panicked
\* while the GPU was still executing a frame.
C15_Witness ==
    /\ swap_pc.st = "panic"
    /\ swap_args.width = 0
    /\ swap_args.height > 0
    /\ gpu_busy
    /\ swap_log = <<>>

-----------------------------------------------------------------------------
\* The position of event e in the log of the recreation, 0 when absent.
Pos(e) ==
    IF \E i \in 1 .. Len(swap_log) : swap_log[i] = e
    THEN CHOOSE i \in 1 .. Len(swap_log) : swap_log[i] = e
    ELSE 0

\* If b has happened then a has happened before it.
Precedes(a, b) == Pos(b) # 0 => (Pos(a) # 0 /\ Pos(a) < Pos(b))

\* C17: a swapchain recreation waits for device idle first; it destroys the
\* depth and color targets, then the framebuffers, then the pipelines, the
\* render pass, the image views and the swapchain; it creates nothing before
\* the swapchain is destroyed; it recreates the pipelines after the new
\* render pass and before the new framebuffers; and a completed recreation
\* has destroyed and created every class.
C17_RecreationOrder ==
    /\ swap_log # <<>> => swap_log[1] = << "wait", "device" >>
    /\ Precedes(<< "destroy", "depth_texture" >>,
                << "destroy", "framebuffers" >>)
    /\ Precedes(<< "destroy", "color_texture" >>,
                << "destroy", "framebuffers" >>)
    /\ Precedes(<< "destroy", "framebuffers" >>, << "destroy", "pipelines" >>)
    /\ Precedes(<< "destroy", "pipelines" >>, << "destroy", "render_pass" >>)
    /\ Precedes(<< "destroy", "render_pass" >>,
                << "destroy", "image_views" >>)
    /\ Precedes(<< "destroy", "image_views" >>, << "destroy", "swapchain" >>)
    /\ \A c \in BundleClasses :
           Precedes(<< "destroy", "swapchain" >>, << "create", c >>)
    /\ Precedes(<< "create", "render_pass" >>, << "create", "pipelines" >>)
    /\ Precedes(<< "create", "pipelines" >>, << "create", "framebuffers" >>)
    /\ (swap_pc.st = "idle" /\ swap_log # <<>>) =>
           \A c \in BundleClasses :
               /\ Pos(<< "destroy", c >>) # 0
               /\ Pos(<< "create", c >>) # 0
               /\ bundle[c] = swap_args

\* C17 witness: a recreation for 400 x 300 has completed.
C17_Witness ==
    /\ swap_pc.st = "idle"
    /\ Len(swap_log) = 2 + 2 * Cardinality(BundleClasses)
    /\ bundle = BundleNew([width |-> 400, height |-> 300])
    /\ command_buffers = [width |-> 400, height |-> 300]

-----------------------------------------------------------------------------
\* C16: at every queue submission of draw_frame the command buffers have
\* been recorded again since the last destruction of an object they refer
\* to, a texture included; the state just after queue_submit is "present".
C16_RecordedAfterEveryDestruction ==
    fpc.st = "present" => ~cb_stale

-----------------------------------------------------------------------------
\* Pipeline p is Ready and no reload concerns it: neither of its files has
\* been changed, and both of its slots are at rest, with a live module, no
\* unconsumed bytecode and no compile job.
Untouched(p) ==
    /\ ~pipelines[p].waiting_for_shaders
    /\ Get(pipelines[p]) # NoPipeline
    /\ \A k \in 1 .. 2 :
           /\ Shaders(p)[k] \in ArtSlots => fileVer[Shaders(p)[k]] = 0
           /\ ~slot[Shaders(p)[k]].is_compiling
           /\ slot[Shaders(p)[k]].module # None
           /\ slot[Shaders(p)[k]].code = None

\* C18: a change of a watched file affects only the pipelines whose slots
\* reference it. No step of the watcher, of the worker or of draw_frame
\* changes the handle, the waiting_for_shaders flag or a slot module of a
\* Ready pipeline none of whose files has changed; only a swapchain
\* recreation ("rs") or a forced reload ("rl") touches such a pipeline.
C18_OtherPipelinesUnaffected ==
    [][\A p \in PipelineIds :
           (Untouched(p) /\ rpc.op \notin {"rs", "rl"}) =>
               /\ pipelines'[p] = pipelines[p]
               /\ \A k \in 1 .. 2 :
                      slot'[Shaders(p)[k]].module = slot[Shaders(p)[k]].module
      ]_vars

\* C18 witness: mandelbrot.frag was changed and Mandelbrot (pipeline 2) has
\* been rebuilt from the new bytecode, while Sdf Cat (pipeline 3) has the
\* handle built from the first version of its two files.
C18_Witness ==
    /\ fileVer["mandelbrot_frag"] = 1
    /\ Get(pipelines[PIPELINE_IDX_ART]) = << 0, 1 >>
    /\ Untouched(PIPELINE_IDX_ART + 1)
    /\ Get(pipelines[PIPELINE_IDX_ART + 1]) = << 0, 0 >>
    /\ rpc.op = "idle"

-----------------------------------------------------------------------------
\* C19: a step of the file watcher sets code_has_changed of the slot of the
\* changed file and nothing else: the queue, the worker, every pipeline and
\* every other field of every slot are as before.
C19_WatcherOnlySetsDirtyBit ==
    [][(\E s \in ArtSlots : fsEvent[s] /\ ~fsEvent'[s]) =>
           /\ queue' = queue
           /\ worker' = worker
           /\ pipelines' = pipelines
           /\ \A s \in Slots :
                  slot'[s] =
                      IF s \in ArtSlots /\ fsEvent[s] /\ ~fsEvent'[s]
                      THEN [slot[s] EXCEPT !.code_has_changed = TRUE]
                      ELSE slot[s]
      ]_vars

\* C19 witness: the watcher has reported a change of mandelbrot.frag; the
\* slot is dirty, not compiling, still has its module, and no job is queued.
C19_Witness ==
    /\ fileVer["mandelbrot_frag"] = 1
    /\ ~fsEvent["mandelbrot_frag"]
    /\ slot["mandelbrot_frag"].code_has_changed
    /\ ~slot["mandelbrot_frag"].is_compiling
    /\ slot["mandelbrot_frag"].module # None
    /\ queue = <<>>
    /\ worker = WorkerIdle
    /\ ~pipelines[PIPELINE_IDX_ART].waiting_for_shaders

-----------------------------------------------------------------------------
\* C20: no step of the compile worker creates or destroys a GPU shader
\* module. A worker step never makes a module field name a module; the one
\* worker step that clears a module field is the store of the bytecode,
\* which makes no device call and leaves the module in existence; and the
\* worker changes no pipeline. Every other change of a module field is a
\* step of the render thread.
C20_WorkerLeavesGpuModulesAlone ==
    [][/\ worker' # worker =>
              /\ pipelines' = pipelines
              /\ \A s \in Slots :
                     \/ slot'[s].module = slot[s].module
                     \/ /\ slot[s].module # None
                        /\ slot'[s].module = None
                        /\ worker'.job = s
                        /\ worker'.orphan
       /\ (\E s \in Slots : slot'[s].module # slot[s].module) =>
              (worker' # worker \/ rpc' # rpc)
      ]_vars

\* C20 witness: the worker has stored the bytecode of version 1 in a slot
\* whose module field named a live module, which it did not destroy.
C20_Witness ==
    /\ worker.st = "stored"
    /\ worker.orphan
    /\ worker.res = 1
    /\ slot[worker.job].code = 1
    /\ slot[worker.job].module = None

-----------------------------------------------------------------------------
\* C25: a load_new_texture that fails keeps the previous texture: a step of
\* load_new_texture whose create_texture_image returns an error, taken with
\* textures[0] alive, leaves textures[0] alive and the texture state as it
\* was.
C25_FailedLoadKeepsTexture ==
    [][(FrameLoadNewTexture("failed") /\ texture0 = "live") =>
           texture0' = texture0
      ]_vars

-----------------------------------------------------------------------------
\* C30 as stated: the in-flight slot index changes only in the step that
\* ends a frame with queue_present, then by one modulo the ring size, and a
\* draw_frame call that returns early on an out-of-date acquire leaves the
\* index naming the slot the call used.
C30_AdvancedOnlyAfterPresent ==
    [][/\ current_frame' # current_frame =>
              /\ fpc.st = "present"
              /\ Returned'
              /\ current_frame' = InFlightFramesNext(current_frame)
       /\ (fpc.st = "acquire" /\ Returned') => current_frame' = fpc.i
      ]_vars

\* C30 amended: the in-flight slot index changes only in
\* in_flight_frames.next(), the first step of every draw_frame call, which
\* hands out the slot the index names and advances the index by one modulo
\* the ring size; no later step of the call changes it, a return on an
\* out-of-date acquire included, so successive draw_frame calls, not
\* successive submissions, use the slots round-robin.
C30_AdvancedAtStartOfEveryCall ==
    [][/\ current_frame' # current_frame => fpc.st = "next"
       /\ (fpc.st = "next" /\ fpc' # fpc) =>
              /\ fpc' = Fpc("wait", current_frame)
              /\ current_frame' = (current_frame + 1) % MAX_FRAMES_IN_FLIGHT
       /\ (fpc.st = "acquire" /\ Returned') =>
              /\ current_frame' = current_frame
              /\ current_frame' = (fpc.i + 1) % MAX_FRAMES_IN_FLIGHT
      ]_vars

\* C30 witness: a draw_frame call that used slot 0 has returned early on an
\* out-of-date acquire, and the index names slot 1.
C30_Witness ==
    /\ frame_log.acquire = "out_of_date"
    /\ frame_log.ret = "true"
    /\ Returned
    /\ ring_log[0].prev = "out_of_date"
    /\ ring_log[1].prev = "none"
    /\ current_frame = 1

-----------------------------------------------------------------------------
\* C27: a forced reload of all shaders requests the recompilation of every
\* hot-reloadable slot: when the loop of VkApp::reload_shaders leaves art
\* pipeline p, the vertex and the fragment slot of p each have a compile
\* job (is_compiling is set), queued by this call or by an earlier one.
C27_ForcedReloadRequestsEverySlot ==
    [][\A p \in ArtPipelineIds :
           (/\ rpc.op = "rl" /\ rpc.i = p
            /\ rpc' # rpc
            /\ rpc' # Pc("rl", "r1", p)) =>
               \A k \in 1 .. 2 : slot'[Shaders(p)[k]].is_compiling
      ]_vars

-----------------------------------------------------------------------------
\* C24: a compile failure of one slot never stops the frame loop. Once a
\* compile job has failed and no job is queued or running, no step of the
\* render thread panics: the pipelines whose slot has no module are left
\* out of the recording and the others are drawn.
C24_CompileFailureIsContained ==
    [][(/\ \E s \in ArtSlots : compile_log[s] = "error"
        /\ queue = <<>>
        /\ worker.st = "idle"
        /\ rpc.op # "panic") =>
           rpc'.op # "panic"
      ]_vars

-----------------------------------------------------------------------------
\* C23: Pipeline::recreate is idempotent. After two calls in succession the
\* pipeline and its slots are as they were after the first; the pipeline is
\* Ready with a handle or waiting for shaders without one; and one handle
\* exists if the pipeline holds one and none otherwise, so no call stored a
\* handle over one it had not destroyed.
C23_RecreateIsIdempotent ==
    recreate_call.st = "twice" =>
        /\ << recreate_call.pl, recreate_call.vs, recreate_call.fs >>
               = recreate_call.once
        /\ recreate_call.pl.waiting_for_shaders
               <=> Get(recreate_call.pl) = NoPipeline
        /\ recreate_call.live
               = (IF Get(recreate_call.pl) # NoPipeline THEN 1 ELSE 0)

-----------------------------------------------------------------------------
\* C26: dropping a Pipeline, a Geometry or a ShaderInner that still holds
\* its GPU object is fatal in all three cases: a value dropped with its
\* object has panicked or aborted, unless the thread was already unwinding
\* from a panic.
C26_LiveDropIsFatal ==
    \A k \in DropKinds :
        (/\ dropped.val[k].st = "dropped"
         /\ dropped.val[k].live
         /\ ~dropped.panicking) =>
            dropped.val[k].outcome \in {"panic", "abort"}

-----------------------------------------------------------------------------
\* Thread t holds a guard of the slot's lock.
Holds(t) == lock.writer = t \/ t \in lock.readers

\* C21 as stated: the thread that is executing a GPU call on the slot's
\* module, or the compiler, holds no guard of the slot's lock.
C21_LockNeverHeldDuringCall ==
    /\ lpc.render \in {"reload_gpu", "module_gpu", "cleanup_gpu"} =>
           ~Holds("render")
    /\ lpc.worker = "compiler" => ~Holds("worker")

\* C21 amended: the worker holds no guard of the slot's lock while the
\* compiler runs; the render thread makes the GPU calls that create or
\* destroy the slot's module with the write guard held.
C21_LockNotHeldWhileCompiling ==
    /\ lpc.worker = "compiler" => ~Holds("worker")
    /\ lpc.render \in {"reload_gpu", "module_gpu", "cleanup_gpu"} =>
           lock.writer = "render"

\* C21 witness: the compiler is running on the worker, which holds no
\* guard, while the render thread creates the module of bytecode stored
\* earlier, holding the write guard.
C21_Witness ==
    /\ lpc.worker = "compiler"
    /\ ~Holds("worker")
    /\ lpc.render = "module_gpu"
    /\ lock.writer = "render"
    /\ lock.inner.is_compiling

-----------------------------------------------------------------------------
(* The running application with the skybox toggle, and its shutdown: the    *)
(* window is closed between two about_to_wait calls, App::exiting waits for *)
(* the GPU, main drops the App and with it the VkApp, then returns.         *)

\* window_event, Key::Character("b") pressed: toggle_cubemap, then
\* dirty_swapchain = true.
ToggleCubemap ==
    /\ life.st = "running"
    /\ rpc.op = "idle"
    /\ pipelines' = [pipelines EXCEPT ![PIPELINE_IDX_CUBE].active = ~@]
    /\ dirty_swapchain' = TRUE
    /\ UNCHANGED << envVars, slot, watching, queue, rpc, m0, rcb, reloading,
                    reload_key, compile_log, module_at_request, last_reload,
                    unread,
                    since_request >>
    /\ UNCHANGED << frameVars, geomVars, swapVars, auxVars >>

\* recreate_command_buffers / create_and_register_command_buffers, keeping
\* in recorded the pipelines the new command buffers draw.
RecordActive(op) ==
    /\ rpc.op = op /\ rpc.st = "cb"
    /\ life.geometry # {}
    /\ IF BindPanics(pipelines)
       THEN /\ rpc' = Pc("panic", "panic", 0)
            /\ UNCHANGED recorded
       ELSE /\ rpc' = AfterRecord(op)
            /\ recorded' = RecordedPipelines(pipelines)
    /\ UNCHANGED << envVars, slot, watching, queue, pipelines, m0, rcb,
                    reloading, dirty_swapchain, reload_key, compile_log,
                    module_at_request, last_reload, unread,
                    since_request >>
    /\ UNCHANGED << frameVars, geomVars, swapVars >>
    /\ UNCHANGED << recreateVars, lockVars, dropVars, life, calc >>

\* window_event, CloseRequested or Escape: event_loop.exit(); about_to_wait
\* now returns at once, and App::exiting calls wait_gpu_idle.
Exiting ==
    /\ life.st = "running"
    /\ rpc.op = "idle"
    /\ life' = [life EXCEPT !.st = "exiting"]
    /\ UNCHANGED << coreVars, recreateVars, lockVars, dropVars, recorded,
                    calc >>

\* VkApp::new, the geometries: geometry_skybox and geometry_quad are
\* created, pipeline_cube gets a clone of the first (handle 2) and the two
\* art pipelines, both with is_3d false, a clone of the second each
\* (handles 2 and 3); pipeline_main owns a Geometry of its own.  Then
\* cleanup is called on the two handles cloned from, before the command
\* buffers are recorded.
NewGeometries ==
    /\ rpc = Pc("new", "cb", 0)
    /\ life.geometry = {}
    /\ geometries' =
          [n \in GeometryNames |->
              IF n = "geometry_skybox"
              THEN GeometryCleanup(GeometryClone(GeometryNew), 1)
              ELSE GeometryCleanup(
                       GeometryClone(GeometryClone(GeometryNew)), 1)]
    /\ life' = [life EXCEPT !.geometry = PipelineIds]
    /\ UNCHANGED << reloadVars, dirty_swapchain, frameVars, swapVars >>
    /\ UNCHANGED << recreateVars, lockVars, dropVars, recorded,
                    calc >>

\* impl Drop for VkApp, the body of drop: cleanup_swapchain, which calls
\* cleanup_pip on every pipeline, then one Pipeline::cleanup per step:
\* cleanup_pip, the geometry taken and cleaned up, both shaders cleaned up.
VkAppDrop ==
    /\ \/ /\ life.st = "exiting"
          /\ pipelines' = [p \in PipelineIds |-> CleanupPip(pipelines[p])]
          /\ life' = [life EXCEPT !.st = "cleanup", !.i = 0]
          /\ UNCHANGED << slot, geometries >>
       \/ /\ life.st = "cleanup"
          /\ life.i < PipelinesLen
          /\ pipelines' = [pipelines EXCEPT ![life.i] = CleanupPip(@)]
          /\ life' = [life EXCEPT !.i = @ + 1, !.geometry = @ \ {life.i}]
          /\ geometries' =
                IF life.i \notin life.geometry \/ life.i = PIPELINE_IDX_MAIN
                THEN geometries
                ELSE IF life.i = PIPELINE_IDX_CUBE
                THEN [geometries EXCEPT
                         !["geometry_skybox"] = GeometryCleanup(@, 2)]
                ELSE [geometries EXCEPT
                         !["geometry_quad"] = GeometryCleanup(@, life.i)]
          /\ slot' = [s \in Slots |->
                         IF \E k \in 1 .. 2 : Shaders(life.i)[k] = s
                         THEN InnerCleanup(slot[s])
                         ELSE slot[s]]
    /\ UNCHANGED << envVars, watching, queue, rpc, m0, rcb, reloading,
                    dirty_swapchain, reload_key, compile_log,
                    module_at_request, last_reload, unread,
                    since_request >>
    /\ UNCHANGED << frameVars, swapVars >>
    /\ UNCHANGED << recreateVars, lockVars, dropVars, recorded,
                    calc >>

\* After the body of drop the fields of VkApp are dropped, the Pipeline
\* values of pipelines among them.
VkAppDropFields ==
    /\ life.st = "cleanup"
    /\ life.i = PipelinesLen
    /\ life' = [life EXCEPT
                   !.st = "dropped",
                   !.panicked =
                       {p \in PipelineIds :
                           PipelineDrop(Get(pipelines[p]) # NoPipeline,
                                        FALSE) = "panic"}]
    /\ UNCHANGED << coreVars, recreateVars, lockVars, dropVars, recorded,
                    calc >>

\* main returns: the process ends and takes the detached threads with it.
MainReturn ==
    /\ life.st = "dropped"
    /\ life' = [life EXCEPT !.st = "exited"]
    /\ UNCHANGED << coreVars, recreateVars, lockVars, dropVars, recorded,
                    calc >>

NextLife ==
    \/ /\ life.st = "running"
       /\ \/ NewSetHotReload
          \/ \E op \in {"new", "rs"} : RecreateM0(op)
          \/ \E op \in {"new", "rs", "df"} : RecreateM1(op)
          \/ DfPoll
          \/ \E op \in {"rl", "df"}, k \in {1, 2} : ReloadStep(op, k)
          \/ AboutToWait
          \/ RsCleanup
          \/ DfSync
          \/ Resized
          \/ KeyReload
    \/ NewGeometries
    \/ \E op \in {"new", "rs", "rl", "df"} : RecordActive(op)
    \/ ToggleCubemap
    \/ life.st # "exited" /\ Worker
    \/ Exiting
    \/ VkAppDrop
    \/ VkAppDropFields
    \/ MainReturn

SpecLife == Init /\ [][NextLife]_vars

\* C22: toggling the skybox changes only the active flag of that pipeline:
\* in a step that flips it, the pipeline's handle and waiting_for_shaders
\* flag, every other pipeline, every slot and every Geometry stay as they
\* were; and every recording of the command buffers leaves out each
\* pipeline that is inactive at that time.
C22_ToggleChangesOnlyActive ==
    [][/\ pipelines'[PIPELINE_IDX_CUBE].active
              # pipelines[PIPELINE_IDX_CUBE].active =>
            /\ pipelines' =
                  [pipelines EXCEPT ![PIPELINE_IDX_CUBE].active = ~@]
            /\ slot' = slot
            /\ geometries' = geometries
            /\ life' = life
       /\ (rpc.st = "cb" /\ rpc' # rpc /\ rpc'.op # "panic") =>
            \A p \in PipelineIds : ~pipelines[p].active => p \notin recorded'
      ]_vars

\* The skybox was switched off and the command buffers were recorded again:
\* it still has its handle and its modules, and only the others are drawn.
C22_Witness ==
    /\ rpc.op = "idle"
    /\ ~dirty_swapchain
    /\ ~pipelines[PIPELINE_IDX_CUBE].active
    /\ ~pipelines[PIPELINE_IDX_CUBE].waiting_for_shaders
    /\ Get(pipelines[PIPELINE_IDX_CUBE]) # NoPipeline
    /\ PIPELINE_IDX_CUBE \notin recorded
    /\ PIPELINE_IDX_MAIN \in recorded

\* C28: when the body of VkApp's drop has run, whatever frames, resizes,
\* toggles and reloads came before, every Pipeline has no GPU pipeline
\* handle, has given up its Geometry and has both slots without a module,
\* so that dropping the Pipeline values afterwards raises no panic; and
\* every shared Geometry has been freed exactly once, by its last handle.
C28_DropLeavesNothingBehind ==
    ( \/ life.st = "cleanup" /\ life.i = PipelinesLen
      \/ life.st \in {"dropped", "exited"} ) =>
        /\ \A p \in PipelineIds :
              /\ Get(pipelines[p]) = NoPipeline
              /\ p \notin life.geometry
              /\ \A k \in 1 .. 2 : slot[Shaders(p)[k]].module = None
        /\ life.panicked = {}
        /\ \A n \in GeometryNames :
              /\ geometries[n].freed = 1
              /\ geometries[n].strong = 0
              /\ ~geometries[n].early

\* The VkApp was dropped with the skybox switched off, after command
\* buffers had been recorded and while the worker was in a compile.
C28_Witness ==
    /\ life.st = "dropped"
    /\ ~pipelines[PIPELINE_IDX_CUBE].active
    /\ recorded # {}
    /\ worker.st # "idle"
    /\ life.panicked = {}
    /\ \A n \in GeometryNames : geometries[n].freed = 1

\* C29: shutdown joins the compile worker: once the VkApp has been dropped
\* the worker thread has terminated, so it is in no compile and from then on
\* takes no job from the channel and stores nothing into a slot.
C29_WorkerJoinedAtShutdown ==
    [][life.st = "dropped" =>
           /\ worker.st = "idle"
           /\ worker' = worker
           /\ queue' = queue
           /\ slot' = slot]_vars

-----------------------------------------------------------------------------
(* Functions without side effects, each called once on arguments drawn from *)
(* a bounded set: the image count of create_swapchain_and_images and        *)
(* Matrix::transpose_sqr.                                                    *)

MaxImageCount == 4

\* The sizes M of the square matrices and the values of their entries.
MatrixSizes == {2, 3, 4}

\* A request of one image more than the minimum whatever the maximum is.
ImageCount_NoClamp(min, max) == min + 1

\* create_swapchain_and_images, the block computing image_count from
\* capabilities.min_image_count and capabilities.max_image_count.
ImageCount(min, max) ==
    LET preferred == min + 1 IN
    IF max > 0 /\ preferred > max THEN max ELSE preferred

\* Matrix::transpose_sqr on a matrix of M columns, self[i][j] being entry j
\* of column i: for i in 1..M, for j in 0..i/2+1, swap self[i][j] and
\* self[j][i].
TransposeSqr(self, M) ==
    LET RECURSIVE Loop(_, _, _)
        Loop(m, i, j) ==
            IF i >= M THEN m
            ELSE IF j >= (i \div 2) + 1 THEN Loop(m, i + 1, 0)
            ELSE LET tmp == m[i][j]
                     m1 == [m EXCEPT ![i][j] = m[j][i]]
                     m2 == [m1 EXCEPT ![j][i] = tmp]
                 IN  Loop(m2, i, j + 1)
    IN  Loop(self, 1, 0)

\* One call of the image_count block, on capabilities as a device reports
\* them: a minimum of at least one image, and a maximum that is zero (no
\* limit) or not below the minimum.
ImageCountCall ==
    /\ calc.fn = "none"
    /\ \E min \in 1 .. MaxImageCount, max \in 0 .. MaxImageCount :
          /\ max = 0 \/ max >= min
          /\ calc' = [fn |-> "image_count", min |-> min, max |-> max,
                      out |-> ImageCount(min, max)]
    /\ UNCHANGED << coreVars, recreateVars, lockVars, dropVars, lifeVars >>

\* One call of transpose_sqr.
TransposeSqrCall ==
    /\ calc.fn = "none"
    /\ \E M \in MatrixSizes :
          \E self \in [0 .. M - 1 -> [0 .. M - 1 -> {0, 1}]] :
              calc' = [fn |-> "transpose_sqr", M |-> M, self |-> self,
                       out |-> TransposeSqr(self, M)]
    /\ UNCHANGED << coreVars, recreateVars, lockVars, dropVars, lifeVars >>

NextCalc == ImageCountCall \/ TransposeSqrCall

SpecCalc == Init /\ [][NextCalc]_vars

\* C31: the image count requested is min_image_count + 1, or max_image_count
\* when there is a limit (max_image_count > 0) and min_image_count + 1 is
\* above it; with a limit the result lies between the minimum and the
\* maximum, and without one it is min_image_count + 1.
C31_ImageCountWithinCapabilities ==
    calc.fn = "image_count" =>
        /\ calc.out = IF calc.max > 0 /\ calc.min + 1 > calc.max
                      THEN calc.max ELSE calc.min + 1
        /\ calc.max > 0 => (calc.min <= calc.out /\ calc.out <= calc.max)
        /\ calc.max = 0 => calc.out = calc.min + 1

\* A device whose only allowed image count is its minimum: the request is
\* reduced from min + 1 to the maximum.
C31_Witness ==
    /\ calc.fn = "image_count"
    /\ calc.min = 2 /\ calc.max = 2
    /\ calc.out = 2

\* C32: transpose_sqr returns the transpose of its argument for every size
\* M: entry j of column i of the result is entry i of column j of the
\* argument, for all i and j below M.
C32_TransposeSqrIsTranspose ==
    calc.fn = "transpose_sqr" =>
        \A i, j \in 0 .. calc.M - 1 : calc.out[i][j] = calc.self[j][i]

-----------------------------------------------------------------------------
\* C33: no shader module handle is ever lost: a compile job never stores
\* its bytecode into a slot whose module field names a live module, so the
\* store's "module = None" never drops the only handle of a module that was
\* not destroyed.
C33_NoModuleLost == ~worker.orphan

-----------------------------------------------------------------------------
\* C34: whenever command buffers are about to be recorded, every pipeline
\* that will be bound (active and not waiting_for_shaders) has a GPU
\* pipeline handle, so the expect in bind_to_cmd_buffer does not fail.
C34_BoundPipelinesHaveHandle ==
    rpc.st = "cb" =>
        \A p \in RecordedPipelines(pipelines) : Get(pipelines[p]) # NoPipeline

-----------------------------------------------------------------------------
\* C35: the wait on a slot's fence in draw_frame always returns: a fence is
\* unsignaled only while a submission that will signal it is pending, or
\* inside the draw_frame call that has reset it and is about to submit; in
\* particular a fence that draw_frame waits on is signaled or has its
\* submission pending.
C35_UnsignaledFenceIsPending ==
    /\ \A i \in FrameSlots :
          ~fence[i] =>
              \/ submitted[i]
              \/ fpc.i = i /\ fpc.st \in {"ubo", "submit"}
    /\ fpc.st = "wait" => (fence[fpc.i] \/ submitted[fpc.i])

\* draw_frame waits on the fence of a slot whose previous submission the GPU
\* has not finished yet.
C35_Witness ==
    /\ fpc.st = "wait"
    /\ ~fence[fpc.i]
    /\ submitted[fpc.i]

-----------------------------------------------------------------------------
-----------------------------------------------------------------------------
\* C37: whenever a slot holds a live module it holds no unconsumed bytecode:
\* load_module consumes the bytecode it builds the module from, and
\* compile_code_helper clears the module field when it stores new bytecode.
C37_ModuleImpliesNoCode ==
    \A s \in Slots : slot[s].module # None => slot[s].code = None

\* A slot that was recompiled holds a module built from the new bytecode,
\* which load_module has consumed.
C37_Witness ==
    \E s \in ArtSlots :
        /\ slot[s].module # None
        /\ slot[s].code = None
        /\ module_at_request[s] # None
        /\ slot[s].module # module_at_request[s]

-----------------------------------------------------------------------------
-----------------------------------------------------------------------------
\* C39: when draw_frame is about to write the uniform buffer of the image it
\* acquired, no submission of the other in-flight slot that reads the same
\* image's uniform buffer is still pending on the GPU.
C39_UniformBufferNotInUse ==
    fpc.st = "ubo" =>
        \A j \in FrameSlots \ {fpc.i} :
            submitted[j] => image_of[j] # image_of[fpc.i]

=============================================================================
